---- MODULE Spec2Model ----
(***************************************************************************)
(* talos-automation: the webhook-driven upgrade orchestrator of            *)
(* tools/talos-automation (main.go, upgrades/talos.go,                     *)
(* upgrades/kubernetes.go, internal/talos, internal/repo).                 *)
(*                                                                         *)
(* Strings are TLA+ strings; a character is a string of length one.        *)
(* Every external call (a talosctl process, an HTTP request, a file read)  *)
(* is one action whose outcome is chosen nondeterministically and which    *)
(* appends a record to the history variable calls.                         *)
(***************************************************************************)
EXTENDS Integers, Sequences, FiniteSets, TLC

(***************************************************************************)
(* Strings                                                                 *)
(***************************************************************************)
Char(s, i) == SubSeq(s, i, i)

\* Byte value of the characters that occur in the modelled strings.
CharCode(c) ==
  CASE c = "-" -> 45 [] c = "." -> 46
    [] c = "0" -> 48 [] c = "1" -> 49 [] c = "2" -> 50 [] c = "3" -> 51
    [] c = "4" -> 52 [] c = "5" -> 53 [] c = "6" -> 54 [] c = "7" -> 55
    [] c = "8" -> 56 [] c = "9" -> 57
    [] c = "=" -> 61
    [] c = "a" -> 97 [] c = "h" -> 104 [] c = "n" -> 110 [] c = "s" -> 115
    [] c = "v" -> 118 [] c = "x" -> 120
    [] OTHER -> 63

IsDigit(c) == c \in {"0", "1", "2", "3", "4", "5", "6", "7", "8", "9"}

\* strings.HasPrefix
HasPrefix(s, prefix) ==
  /\ Len(s) >= Len(prefix)
  /\ SubSeq(s, 1, Len(prefix)) = prefix

\* strings.TrimPrefix
TrimPrefix(s, prefix) ==
  IF HasPrefix(s, prefix) THEN SubSeq(s, Len(prefix) + 1, Len(s)) ELSE s

\* strings.Compare: bytewise lexicographic order, -1, 0 or +1.
RECURSIVE CompareFrom(_, _, _)
CompareFrom(a, b, i) ==
  IF i > Len(a) /\ i > Len(b) THEN 0
  ELSE IF i > Len(a) THEN -1
  ELSE IF i > Len(b) THEN 1
  ELSE IF CharCode(Char(a, i)) < CharCode(Char(b, i)) THEN -1
  ELSE IF CharCode(Char(a, i)) > CharCode(Char(b, i)) THEN 1
  ELSE CompareFrom(a, b, i + 1)

Compare(a, b) == CompareFrom(a, b, 1)

\* Position of the first non-digit of s at or after i (Len(s)+1 when none).
RECURSIVE DigitsEnd(_, _)
DigitsEnd(s, i) ==
  IF i <= Len(s) /\ IsDigit(Char(s, i)) THEN DigitsEnd(s, i + 1) ELSE i

\* regexp ^v?(\d+)\.(\d+)\.(\d+)$ as a left-to-right match.
MatchesVersionRegex(s) ==
  LET i0 == IF HasPrefix(s, "v") THEN 2 ELSE 1
      i1 == DigitsEnd(s, i0)
      i2 == DigitsEnd(s, i1 + 1)
      i3 == DigitsEnd(s, i2 + 1)
  IN  /\ i1 > i0
      /\ i1 <= Len(s) /\ Char(s, i1) = "."
      /\ i2 > i1 + 1
      /\ i2 <= Len(s) /\ Char(s, i2) = "."
      /\ i3 > i2 + 1
      /\ i3 = Len(s) + 1

\* TalosUpgrader.isValidVersion
TalosIsValidVersion(version) == MatchesVersionRegex(version)

\* A validation that accepts every string: what UpgradeToVersion would do
\* without its format test.
AcceptAnyVersion(version) == TRUE

\* KubernetesUpgrader.isValidVersion
K8sIsValidVersion(version) == MatchesVersionRegex(version)

\* A comparison that never reports a downgrade.
NeverDowngrade(current, target) == FALSE

\* KubernetesUpgrader.isDowngrade
isDowngrade(current, target) == Compare(current, target) > 0

(***************************************************************************)
(* Reference semantics used only to state properties: the numeric value of *)
(* a version's components.                                                 *)
(***************************************************************************)
DigitVal(c) == CharCode(c) - 48

RECURSIVE NumFrom(_, _, _, _)
NumFrom(s, i, j, acc) ==
  IF i >= j THEN acc ELSE NumFrom(s, i + 1, j, acc * 10 + DigitVal(Char(s, i)))

\* <<major, minor, patch>> of a string accepted by the version regex.
SemverOf(s) ==
  LET i0 == IF HasPrefix(s, "v") THEN 2 ELSE 1
      i1 == DigitsEnd(s, i0)
      i2 == DigitsEnd(s, i1 + 1)
      i3 == DigitsEnd(s, i2 + 1)
  IN  <<NumFrom(s, i0, i1, 0), NumFrom(s, i1 + 1, i2, 0), NumFrom(s, i2 + 1, i3, 0)>>

SemverLess(a, b) ==
  LET x == SemverOf(a)
      y == SemverOf(b)
  IN  \/ x[1] < y[1]
      \/ x[1] = y[1] /\ x[2] < y[2]
      \/ x[1] = y[1] /\ x[2] = y[2] /\ x[3] < y[3]

(***************************************************************************)
(* Inputs and external outcomes                                            *)
(***************************************************************************)
\* Longest node list of the inventory.
MaxNodes == 2

\* Node addresses in the order the inventory declares them.
NodeNames == <<"n2", "n1", "n3", "n4">>

NodeLists == {SubSeq(NodeNames, 1, k) : k \in 1..MaxNodes}

\* config.WebhookSecret (non-empty: main refuses to start otherwise).
WebhookSecret == "s3"

\* config.DiagnosticsToken (non-empty: main refuses to start otherwise).
DiagnosticsToken == "tok"

TrackFile == "infrastructure/cluster/track-versions.yaml"

MainRef == "refs/heads/main"

\* Desired versions the version file may declare (valid and malformed).
MalformedVersions == {"", "v1.12", "1.x.0"}

ValidTargets == {"1.9.0", "v1.10.0", "1.10.1"}

TargetVersions == MalformedVersions \cup ValidTargets

\* The OS-layer targets: the above and a target two minor versions ahead of
\* the mock of scenario talos-upgrade.
TalosTargets == TargetVersions \cup {"1.12.0"}

VersionFiles == [talos : TalosTargets, k8s : TargetVersions]

\* What `talosctl version --short` may print after "Client: Talos ".
TalosVersionOutputs == {"v1.9.0", "v1.10.0", "x"}

\* gitVersion values the kube-apiserver may report.
GitVersions == {"v1.9.0", "v1.10.0", "v1.10.1"}

\* The ways one attempt of getAPIServerVersion fails.
HttpsFailures ==
  {"network error", "status not 200", "undecodable body", "gitVersion missing"}

\* Request bodies: id stands for the raw bytes, json says whether the bytes
\* unmarshal into GitHubWebhook, ref and commits are the decoded fields.
Payloads ==
  { [id |-> "p0", json |-> FALSE, ref |-> "", commits |-> <<>>],
    [id |-> "p1", json |-> TRUE, ref |-> "refs/heads/dev", commits |-> <<<<TrackFile>>>>],
    [id |-> "p2", json |-> TRUE, ref |-> MainRef, commits |-> <<>>],
    [id |-> "p3", json |-> TRUE, ref |-> MainRef, commits |-> <<<<"README.md">>, <<>>>>],
    [id |-> "p4", json |-> TRUE, ref |-> MainRef,
     commits |-> <<<<"README.md">>, <<"a.yaml", TrackFile>>>>] }

\* hex(HMAC-SHA256(secret, body)): a keyed digest, modelled as a collision-free
\* function of the key and the bytes.
HexMac(secret, body) == secret \o "-" \o body

Signatures(p) ==
  { "",
    "sha256=" \o HexMac(WebhookSecret, p.id),
    "sha256=" \o HexMac("xx", p.id),
    "sha256=" \o HexMac(WebhookSecret, "p9"),
    "sha1=" \o HexMac(WebhookSecret, p.id),
    HexMac(WebhookSecret, p.id) }

NoRequest ==
  [method |-> "", readErr |-> FALSE, payload |-> CHOOSE p \in Payloads : p.id = "p0",
   signature |-> "", auth |-> "", scenario |-> "", currentK8s |-> "", currentTalos |-> ""]

WebhookRequests ==
  UNION { { [NoRequest EXCEPT !.method = m, !.payload = p, !.signature = s, !.readErr = e] :
              m \in {"POST", "GET"}, s \in Signatures(p), e \in BOOLEAN } : p \in Payloads }

\* <<scenario, current_k8s, current_talos>> query parameters.
DiagnosticsParams ==
  { <<"", "", "">>, <<"both-upgrade", "", "">>, <<"k8s-upgrade", "", "">>,
    <<"talos-upgrade", "", "">>,
    <<"", "1.9.0", "">>, <<"", "1.10.1", "">>, <<"", "v1.10.0", "">>,
    <<"", "", "1.9.0">>, <<"both-upgrade", "1.10.1", "1.9.0">> }

DiagnosticsRequests ==
  { [NoRequest EXCEPT !.method = m, !.auth = a, !.scenario = q[1], !.currentK8s = q[2],
                      !.currentTalos = q[3]] :
      m \in {"GET", "POST"},
      a \in {"", "Basic " \o DiagnosticsToken, "Bearer " \o DiagnosticsToken, "Bearer no"},
      q \in DiagnosticsParams }

NoVersions == [talos |-> "", k8s |-> ""]

\* The results map of diagnosticsEndpoint: one status per sub-check ("" when the
\* key is absent) and summary.ready ("" until the summary is written).
NoResults ==
  [github_api |-> "", talos_config |-> "", bare_metal_config |-> "", image_factory |-> "",
   cluster_versions |-> "", upgrade_test |-> "", ready |-> ""]

\* getAPIServerVersion: const maxRetries
maxRetries == 3

(***************************************************************************)
(* State                                                                   *)
(***************************************************************************)
\* The handler goroutines net/http runs at the same time, one per request.
Handlers == {1, 2}

\* A goroutine that serves no request.
IdleHandler == [pc |-> "idle", sigOk |-> FALSE, relevant |-> FALSE, idx |-> 0, resp |-> 0]

\* A site that is not observed: its cluster, client tool and inventory file are
\* whatever each external call finds.
NoSite == [client |-> "", inventory |-> {}, os |-> <<>>, k8s |-> ""]

\* No dispatch: the record of a dispatch observed at a site.
NoRun ==
  [pc |-> "idle", versions |-> NoVersions, nodes |-> <<>>, endpoint |-> "", idx |-> 0,
   tCur |-> "", tDecision |-> "", cmds |-> {}, envOk |-> TRUE, resp |-> 0]

VARIABLES
  pc,          \* position of the request being handled: the next external call
  kind,        \* "none", "webhook" or "diag": the handler that is running
  req,         \* the request
  resp,        \* HTTP status written (0: none yet)
  versions,    \* *repo.Versions fetched by processUpgrade
  allNodes,    \* result of GetAllNodes
  controlPlaneNode, \* result of GetFirstControlPlaneNode
  exec,        \* executeCommands of the running controller call
  tMock,       \* TalosUpgrader.mockCurrentVersion
  kMock,       \* KubernetesUpgrader.mockCurrentVersion
  tClean,      \* cleanVersion of TalosUpgrader.UpgradeToVersion
  tCur,        \* currentVersion of TalosUpgrader.UpgradeToVersion
  tCurErr,     \* err of its current-version resolution ("" is nil)
  kClean,      \* cleanVersion of KubernetesUpgrader.UpgradeToVersion
  kCur,        \* currentVersion returned by KubernetesUpgrader.GetCurrentVersion
  kCurErr,     \* its err, and lastErr inside getAPIServerVersion ("" is nil)
  nodeIdx,     \* 1-based index of the node loop
  attempt,     \* attempt of getAPIServerVersion
  tRet,        \* what TalosUpgrader.UpgradeToVersion returned ("none": not returned)
  kRet,        \* what KubernetesUpgrader.UpgradeToVersion returned
  puErr,       \* error of processUpgrade ("" is nil)
  ret,         \* who called KubernetesUpgrader.GetCurrentVersion: "upgrade" or "probe"
  results,     \* the results map of diagnosticsEndpoint
  calls,       \* history of the handler's external calls: [by, op, arg, ok]; the
               \* diagnostics handler starts it anew when it enters
               \* processUpgradeWithTestOverrides
  logs,        \* transcript files created (os.Create) while the request is handled,
               \* in order of creation
  env,         \* the process environment: variable name -> value ("" when unset)
  cfg,         \* the Config built by loadConfig
  fatal,       \* the message of the log.Fatal that ended the process, "" while
               \* it runs
  exitCode,    \* the exit status (log.Fatal exits with 1), 0 while it runs
  listenPort,  \* the port the server listens on, "" while it does not listen
  delays,      \* the attempts of the current getAPIServerVersion after which
               \* time.Sleep(retryDelay) ran, in order
  tmpFiles,    \* the files in the temporary directory that fetchKubeconfig created
  tmpPath,     \* tmpPath of the fetchKubeconfig that is running, "" when none is
  schematicID, \* the identifier CreateSchematic returned to the OS controller
  nodeImages,  \* the installerImage given to upgradeNode, one per call, in order
  handlers,    \* the handler goroutines of concurrently served webhook requests:
               \* handler -> [pc, sigOk, relevant, idx, resp]
  site,        \* the site the service is deployed at: the talosctl binary, the
               \* inventory file, the OS version of each node, the cluster's
               \* orchestration-layer version
  run,         \* the dispatch in progress at the site
  prior        \* the latest dispatch that returned at the site

vars == <<pc, kind, req, resp, versions, allNodes, controlPlaneNode, exec, tMock, kMock,
          tClean, tCur, tCurErr, kClean, kCur, kCurErr, nodeIdx, attempt, tRet, kRet,
          puErr, ret, results, calls, logs, env, cfg, fatal, exitCode, listenPort,
          delays, tmpFiles, tmpPath, schematicID, nodeImages, handlers, site, run, prior>>

reqVars == <<kind, req>>
invVars == <<versions, allNodes, controlPlaneNode>>
tVars == <<tMock, tClean, tCur, tCurErr, nodeIdx>>
kVars == <<kMock, kClean, kCur, kCurErr, attempt, ret>>
hVars == <<puErr, results, resp>>
mainVars == <<env, cfg, fatal, exitCode, listenPort>>
fsVars == <<tmpFiles, tmpPath>>
imgVars == <<schematicID, nodeImages>>
siteVars == <<site, run, prior>>

\* Everything but the concurrently served handlers.
soloVars == <<pc, kind, req, resp, versions, allNodes, controlPlaneNode, exec, tMock, kMock,
              tClean, tCur, tCurErr, kClean, kCur, kCurErr, nodeIdx, attempt, tRet, kRet,
              puErr, ret, results, calls, logs, env, cfg, fatal, exitCode, listenPort,
              delays, tmpFiles, tmpPath, schematicID, nodeImages>>

Call(by, op, arg, ok) == [by |-> by, op |-> op, arg |-> arg, ok |-> ok]

(***************************************************************************)
(* main: configuration and start of the server                             *)
(***************************************************************************)
\* The values an environment variable can have: unset, or the value the
\* deployment gives it.
Environments ==
  [ GITHUB_WEBHOOK_SECRET : {"", WebhookSecret},
    TALOS_CONFIG_PATH : {"", "/talos/talosconfig"},
    LOG_PATH : {"", "/app/logs"},
    GITHUB_TOKEN : {"", "ght"},
    GITHUB_OWNER : {"", "jeversol"},
    GITHUB_REPO : {"", "home-gitops"},
    PORT : {"", "8080"},
    DIAGNOSTICS_TOKEN : {"", DiagnosticsToken} ]

\* The environment of a running service: every required variable set.
ServingEnv ==
  [ GITHUB_WEBHOOK_SECRET |-> WebhookSecret,
    TALOS_CONFIG_PATH |-> "/talos/talosconfig",
    LOG_PATH |-> "/app/logs",
    GITHUB_TOKEN |-> "ght",
    GITHUB_OWNER |-> "jeversol",
    GITHUB_REPO |-> "home-gitops",
    PORT |-> "",
    DIAGNOSTICS_TOKEN |-> DiagnosticsToken ]

getEnvWithDefault(environ, key, defaultValue) ==
  IF environ[key] # "" THEN environ[key] ELSE defaultValue

loadConfig(environ) ==
  [ WebhookSecret |-> environ["GITHUB_WEBHOOK_SECRET"],
    TalosConfigPath |-> environ["TALOS_CONFIG_PATH"],
    LogPath |-> environ["LOG_PATH"],
    GitHubToken |-> environ["GITHUB_TOKEN"],
    GitHubOwner |-> environ["GITHUB_OWNER"],
    GitHubRepo |-> environ["GITHUB_REPO"],
    Port |-> getEnvWithDefault(environ, "PORT", "3847"),
    DiagnosticsToken |-> environ["DIAGNOSTICS_TOKEN"] ]

\* The Config before loadConfig ran.
NoConfig ==
  [ WebhookSecret |-> "", TalosConfigPath |-> "", LogPath |-> "", GitHubToken |-> "",
    GitHubOwner |-> "", GitHubRepo |-> "", Port |-> "", DiagnosticsToken |-> "" ]

\* A validation that does not look at the diagnostics token.
RequiredVariableWithoutDiagnostics(conf) ==
  IF conf.WebhookSecret = "" THEN "GITHUB_WEBHOOK_SECRET"
  ELSE IF conf.GitHubToken = "" THEN "GITHUB_TOKEN"
  ELSE IF conf.GitHubOwner = "" THEN "GITHUB_OWNER"
  ELSE IF conf.GitHubRepo = "" THEN "GITHUB_REPO"
  ELSE IF conf.TalosConfigPath = "" THEN "TALOS_CONFIG_PATH"
  ELSE IF conf.LogPath = "" THEN "LOG_PATH"
  ELSE ""

\* main's validation: the variable named by the first log.Fatal it reaches,
\* "" when it reaches none.
RequiredVariable(conf) ==
  IF conf.WebhookSecret = "" THEN "GITHUB_WEBHOOK_SECRET"
  ELSE IF conf.GitHubToken = "" THEN "GITHUB_TOKEN"
  ELSE IF conf.GitHubOwner = "" THEN "GITHUB_OWNER"
  ELSE IF conf.GitHubRepo = "" THEN "GITHUB_REPO"
  ELSE IF conf.TalosConfigPath = "" THEN "TALOS_CONFIG_PATH"
  ELSE IF conf.LogPath = "" THEN "LOG_PATH"
  ELSE IF conf.DiagnosticsToken = "" THEN "DIAGNOSTICS_TOKEN"
  ELSE ""

Init ==
  /\ pc = "idle"
  /\ kind = "none"
  /\ req = NoRequest
  /\ resp = 0
  /\ versions = NoVersions
  /\ allNodes = <<>>
  /\ controlPlaneNode = ""
  /\ exec = FALSE
  /\ tMock = ""
  /\ kMock = ""
  /\ tClean = ""
  /\ tCur = ""
  /\ tCurErr = ""
  /\ kClean = ""
  /\ kCur = ""
  /\ kCurErr = ""
  /\ nodeIdx = 0
  /\ attempt = 0
  /\ tRet = "none"
  /\ kRet = "none"
  /\ puErr = ""
  /\ ret = ""
  /\ results = NoResults
  /\ calls = <<>>
  /\ logs = <<>>
  /\ env = ServingEnv
  /\ cfg = loadConfig(ServingEnv)
  /\ fatal = ""
  /\ exitCode = 0
  /\ listenPort = loadConfig(ServingEnv).Port
  /\ delays = <<>>
  /\ tmpFiles = {}
  /\ tmpPath = ""
  /\ schematicID = ""
  /\ nodeImages = <<>>
  /\ handlers = [h \in Handlers |-> IdleHandler]
  /\ site = NoSite
  /\ run = NoRun
  /\ prior = NoRun

\* The handler writes status and returns.
Reply(status) ==
  /\ resp' = status
  /\ pc' = "done"

\* A handler's locals do not outlive it: nothing persists across requests.
Return ==
  /\ pc = "done"
  /\ UNCHANGED <<mainVars, fsVars, handlers, siteVars>>
  /\ pc' = "idle"
  /\ kind' = "none"
  /\ req' = NoRequest
  /\ resp' = 0
  /\ versions' = NoVersions
  /\ allNodes' = <<>>
  /\ controlPlaneNode' = ""
  /\ exec' = FALSE
  /\ tMock' = ""
  /\ kMock' = ""
  /\ tClean' = ""
  /\ tCur' = ""
  /\ tCurErr' = ""
  /\ kClean' = ""
  /\ kCur' = ""
  /\ kCurErr' = ""
  /\ nodeIdx' = 0
  /\ attempt' = 0
  /\ tRet' = "none"
  /\ kRet' = "none"
  /\ puErr' = ""
  /\ ret' = ""
  /\ results' = NoResults
  /\ calls' = <<>>
  /\ logs' = <<>>
  /\ delays' = <<>>
  /\ schematicID' = ""
  /\ nodeImages' = <<>>

(***************************************************************************)
(* Trigger gateway: handleWebhook                                          *)
(***************************************************************************)
\* A verification that accepts every header.
AcceptAnySignature(payload, signature, secret) == TRUE

verifyWebhookSignature(payload, signature, secret) ==
  IF ~HasPrefix(signature, "sha256=") THEN FALSE
  ELSE signature = "sha256=" \o HexMac(secret, payload.id)

\* A file filter that is satisfied by any commit.
AnyCommitModified(webhook) == Len(webhook.commits) > 0

\* The nested loops over webhook.Commits and commit.Modified.
trackVersionsModified(webhook) ==
  \E i \in 1..Len(webhook.commits) :
    \E j \in 1..Len(webhook.commits[i]) : webhook.commits[i][j] = TrackFile

ReceiveWebhook ==
  /\ pc = "idle"
  /\ UNCHANGED <<mainVars, delays, fsVars, imgVars, handlers, siteVars>>
  /\ \E r \in WebhookRequests : req' = r
  /\ kind' = "webhook"
  /\ pc' = "wh_read"
  /\ UNCHANGED <<resp, invVars, exec, tVars, kVars, tRet, kRet, puErr, results, calls,
                 logs>>

\* Method check and io.ReadAll.
WebhookRead ==
  /\ pc = "wh_read"
  /\ UNCHANGED <<mainVars, delays, fsVars, imgVars, handlers, siteVars>>
  /\ IF req.method # "POST" THEN Reply(405)
     ELSE IF req.readErr THEN Reply(400)
     ELSE pc' = "wh_verify" /\ UNCHANGED resp
  /\ UNCHANGED <<logs, reqVars, invVars, exec, tVars, kVars, tRet, kRet, puErr, results, calls>>

WebhookVerify ==
  /\ pc = "wh_verify"
  /\ UNCHANGED <<mainVars, delays, fsVars, imgVars, handlers, siteVars>>
  /\ IF ~verifyWebhookSignature(req.payload, req.signature, WebhookSecret) THEN Reply(401)
     ELSE pc' = "wh_filter" /\ UNCHANGED resp
  /\ UNCHANGED <<logs, reqVars, invVars, exec, tVars, kVars, tRet, kRet, puErr, results, calls>>

\* What handleWebhook does with a verified body: the status it answers at
\* once, or 0 when it calls processUpgrade.
\* A filter that does not look at the branch.
WebhookFilterStatusAnyBranch(payload) ==
  IF ~payload.json THEN 400
  ELSE IF ~trackVersionsModified(payload) THEN 200
  ELSE 0

WebhookFilterStatus(payload) ==
  IF ~payload.json THEN 400
  ELSE IF payload.ref # MainRef THEN 200
  ELSE IF ~trackVersionsModified(payload) THEN 200
  ELSE 0

\* json.Unmarshal, the branch filter and the file filter.
WebhookFilter ==
  /\ pc = "wh_filter"
  /\ UNCHANGED <<mainVars, delays, fsVars, imgVars, handlers, siteVars>>
  /\ IF WebhookFilterStatus(req.payload) # 0 THEN Reply(WebhookFilterStatus(req.payload))
     ELSE pc' = "pu_fetch" /\ UNCHANGED resp
  /\ UNCHANGED <<logs, reqVars, invVars, exec, tVars, kVars, tRet, kRet, puErr, results, calls>>

(***************************************************************************)
(* What follows a return, up to the next external call                     *)
(***************************************************************************)
\* checkAllTestsPass
checkAllTestsPass(r) ==
  \A test \in {"github_api", "talos_config", "bare_metal_config", "image_factory",
               "cluster_versions"} :
    r[test] \in {"", "success"}

\* diagnosticsEndpoint from Test 6 on: the summary and the JSON answer.
DiagFinish(r) ==
  /\ results' = [r EXCEPT !.ready = IF checkAllTestsPass(r) THEN "true" ELSE "false"]
  /\ Reply(200)

\* A handler that answers 200 whatever processUpgrade returned.
DispatchStatusAlwaysOk(err) == 200

\* Status handleWebhook answers when processUpgrade returned err.
DispatchStatus(err) == IF err # "" THEN 500 ELSE 200

\* processUpgrade (processUpgradeWithTestOverrides) returns err to its handler.
ProcessUpgradeReturns(err) ==
  /\ puErr' = err
  /\ IF kind = "webhook"
     THEN Reply(DispatchStatus(err)) /\ UNCHANGED results
     ELSE DiagFinish([results EXCEPT !.upgrade_test = IF err # "" THEN "failed" ELSE "success"])

\* k8sUpgrader.UpgradeToVersion returns r ("ok" is nil).
K8sReturns(r) ==
  /\ kRet' = r
  /\ ProcessUpgradeReturns(IF r # "ok" THEN "kubernetes upgrade failed" ELSE "")

\* An override in which the scenario wins over the explicit parameter.
K8sOverrideScenarioFirst(currentK8s, scenario) ==
  IF scenario \in {"k8s-upgrade", "both-upgrade"} THEN "1.33.2"
  ELSE currentK8s

\* The current_k8s / scenario override of processUpgradeWithTestOverrides.
K8sOverride(currentK8s, scenario) ==
  IF currentK8s # "" THEN currentK8s
  ELSE IF scenario \in {"k8s-upgrade", "both-upgrade"} THEN "1.33.2"
  ELSE ""

\* NewKubernetesUpgrader, the test override, and UpgradeToVersion up to
\* GetCurrentVersion.
K8sStart ==
  /\ kMock' = IF kind = "webhook" THEN "" ELSE K8sOverride(req.currentK8s, req.scenario)
  /\ IF ~K8sIsValidVersion(versions.k8s)
     THEN /\ K8sReturns("invalid version")
          /\ UNCHANGED <<kClean, ret>>
     ELSE /\ kClean' = TrimPrefix(versions.k8s, "v")
          /\ ret' = "upgrade"
          /\ pc' = "kq_kubeconfig"
          /\ UNCHANGED <<kRet, hVars>>

\* A processUpgrade that starts the orchestration-layer controller whatever the
\* OS controller returned.
TalosReturnsIgnoringError(r) ==
  /\ tRet' = r
  /\ K8sStart

\* talosUpgrader.UpgradeToVersion returns r ("ok" is nil): processUpgrade stops
\* on an error and starts the orchestration-layer controller otherwise.
TalosReturns(r) ==
  /\ tRet' = r
  /\ IF r # "ok"
     THEN /\ ProcessUpgradeReturns("talos upgrade failed")
          /\ UNCHANGED <<kMock, kClean, ret, kRet>>
     ELSE K8sStart

\* A decision without the already-current test.
TalosDecisionWithoutNoop(executeCommands, err, currentVersion, cleanVersion) ==
  IF err # "" /\ executeCommands THEN "fail"
  ELSE IF ~executeCommands THEN "dry"
  ELSE "proceed"

\* A decision that does not stop when executeCommands is false.
TalosDecisionWithoutDryRun(executeCommands, err, currentVersion, cleanVersion) ==
  IF err # "" /\ executeCommands THEN "fail"
  ELSE IF err = "" /\ currentVersion = cleanVersion THEN "noop"
  ELSE "proceed"

\* The decision of TalosUpgrader.UpgradeToVersion once the current version is
\* resolved: "fail" (unknown in live mode), "noop", "dry" or "proceed".
TalosDecision(executeCommands, err, currentVersion, cleanVersion) ==
  IF err # "" /\ executeCommands THEN "fail"
  ELSE IF err = "" /\ currentVersion = cleanVersion THEN "noop"
  ELSE IF ~executeCommands THEN "dry"
  ELSE "proceed"

\* TalosUpgrader.UpgradeToVersion after getCurrentVersion returned.
TalosAfterCurrent(executeCommands, cleanVersion, currentVersion, err) ==
  LET d == TalosDecision(executeCommands, err, currentVersion, cleanVersion) IN
  /\ tCur' = currentVersion
  /\ tCurErr' = err
  /\ IF d = "proceed"
     THEN /\ pc' = "t_fetchBM"
          /\ UNCHANGED <<tRet, kMock, kClean, ret, kRet, hVars>>
     ELSE TalosReturns(IF d = "fail" THEN "cannot determine current version" ELSE "ok")

\* The current_talos / scenario override of processUpgradeWithTestOverrides.
TalosOverride(currentTalos, scenario) ==
  IF currentTalos # "" THEN currentTalos
  ELSE IF scenario \in {"talos-upgrade", "both-upgrade"} THEN "1.10.5"
  ELSE ""

\* A resolution that does not look at the override.
TalosMockVersionIgnoringOverride(mockCurrentVersion) == "1.10.6"

\* TalosUpgrader.GetCurrentVersion with executeCommands = false.
TalosMockVersion(mockCurrentVersion) ==
  IF mockCurrentVersion # "" THEN mockCurrentVersion ELSE "1.10.6"

\* NewTalosUpgrader, the test override, and UpgradeToVersion up to its first
\* external call.
TalosStart ==
  LET live == (kind = "webhook")
      mock == IF live THEN "" ELSE TalosOverride(req.currentTalos, req.scenario)
  IN
  /\ exec' = live
  /\ tMock' = mock
  /\ IF ~TalosIsValidVersion(versions.talos)
     THEN /\ TalosReturns("invalid version")
          /\ UNCHANGED <<tClean, tCur, tCurErr>>
     ELSE /\ tClean' = TrimPrefix(versions.talos, "v")
          /\ IF live
             THEN /\ pc' = "t_current"
                  /\ UNCHANGED <<tCur, tCurErr, tRet, kMock, kClean, ret, kRet, hVars>>
             ELSE TalosAfterCurrent(FALSE, TrimPrefix(versions.talos, "v"),
                                    TalosMockVersion(mock), "")

(***************************************************************************)
(* processUpgrade / processUpgradeWithTestOverrides: version source and    *)
(* cluster inventory                                                       *)
(***************************************************************************)
\* githubClient.FetchVersions
FetchVersions ==
  /\ pc = "pu_fetch"
  /\ UNCHANGED <<mainVars, delays, fsVars, imgVars, handlers, siteVars>>
  /\ \/ /\ calls' = Append(calls, Call("gateway", "FetchVersions", "", FALSE))
        /\ ProcessUpgradeReturns("failed to fetch versions")
        /\ UNCHANGED versions
     \/ \E v \in VersionFiles :
          /\ calls' = Append(calls, Call("gateway", "FetchVersions", "", TRUE))
          /\ versions' = v
          /\ pc' = "pu_config"
          /\ UNCHANGED hVars
  /\ UNCHANGED <<logs, reqVars, allNodes, controlPlaneNode, exec, tVars, kVars, tRet, kRet>>

\* Contexts of the talosconfig file: each has endpoints and nodes.
InventoryFiles ==
  { {[endpoints |-> <<"e1">>, nodes |-> n]} : n \in NodeLists }
  \cup { {[endpoints |-> <<>>, nodes |-> <<"n1">>]},
         {[endpoints |-> <<"e1">>, nodes |-> <<>>]} }

\* A read that takes the node list of a context even when it is empty.
GetAllNodesAnyContext(config) == {c.nodes : c \in config}

\* Config.GetAllNodes: the nodes of a context that has some (map order is
\* unspecified); {} when it returns an error.
GetAllNodes(config) == {c.nodes : c \in {d \in config : Len(d.nodes) > 0}}

\* Config.GetFirstControlPlaneNode
GetFirstControlPlaneNode(config) ==
  {c.endpoints[1] : c \in {d \in config : Len(d.endpoints) > 0}}

\* talos.ParseConfig, GetAllNodes, GetFirstControlPlaneNode; the OS controller
\* is started when all succeed.
ParseConfig ==
  /\ pc = "pu_config"
  /\ UNCHANGED <<mainVars, delays, fsVars, imgVars, handlers, siteVars>>
  /\ \/ /\ calls' = Append(calls, Call("gateway", "ParseConfig", "", FALSE))
        /\ ProcessUpgradeReturns("failed to parse talos config")
        /\ UNCHANGED <<allNodes, controlPlaneNode, exec, tMock, tClean, tCur, tCurErr,
                       kMock, kClean, ret, tRet, kRet>>
     \/ \E config \in InventoryFiles :
          /\ calls' = Append(calls, Call("gateway", "ParseConfig", "", TRUE))
          /\ IF GetAllNodes(config) = {} \/ GetFirstControlPlaneNode(config) = {}
             THEN /\ ProcessUpgradeReturns(IF GetAllNodes(config) = {}
                                           THEN "failed to get cluster nodes"
                                           ELSE "failed to get control plane node")
                  /\ UNCHANGED <<allNodes, controlPlaneNode, exec, tMock, tClean, tCur,
                                 tCurErr, kMock, kClean, ret, tRet, kRet>>
             ELSE /\ allNodes' \in GetAllNodes(config)
                  /\ controlPlaneNode' \in GetFirstControlPlaneNode(config)
                  /\ TalosStart
  /\ UNCHANGED <<logs, reqVars, versions, kCur, kCurErr, nodeIdx, attempt>>

(***************************************************************************)
(* OS upgrade controller: TalosUpgrader                                    *)
(***************************************************************************)
\* End of the match of (\d+\.\d+\.\d+) starting at i, 0 when there is none.
VersionMatchEnd(s, i) ==
  LET i1 == DigitsEnd(s, i)
      i2 == DigitsEnd(s, i1 + 1)
      i3 == DigitsEnd(s, i2 + 1)
  IN  IF /\ i1 > i
         /\ i1 <= Len(s) /\ Char(s, i1) = "."
         /\ i2 > i1 + 1
         /\ i2 <= Len(s) /\ Char(s, i2) = "."
         /\ i3 > i2 + 1
      THEN i3 ELSE 0

\* The submatch of `Client:\s+Talos v?(\d+\.\d+\.\d+)` in "Client: Talos " + out;
\* "" when the expression does not match.
TalosParseVersion(out) ==
  LET i0 == IF HasPrefix(out, "v") THEN 2 ELSE 1
      e  == VersionMatchEnd(out, i0)
  IN  IF e = 0 THEN "" ELSE SubSeq(out, i0, e - 1)

\* <<version, err>> GetCurrentVersion returns when the command printed out.
TalosCommandResult(out) ==
  IF TalosParseVersion(out) = "" THEN <<"", "could not parse Talos version">>
  ELSE <<TalosParseVersion(out), "">>

\* GetCurrentVersion with executeCommands = true: `talosctl version --short`;
\* the output is recorded as the call's arg.
TalosGetCurrent ==
  /\ pc = "t_current"
  /\ UNCHANGED <<mainVars, delays, fsVars, imgVars, handlers, siteVars>>
  /\ \/ /\ calls' = Append(calls, Call("talos", "TalosVersion", "", FALSE))
        /\ TalosAfterCurrent(exec, tClean, "", "failed to get current Talos version")
     \/ \E out \in TalosVersionOutputs :
          /\ calls' = Append(calls, Call("talos", "TalosVersion", out, TRUE))
          /\ TalosAfterCurrent(exec, tClean, TalosCommandResult(out)[1],
                               TalosCommandResult(out)[2])
  /\ UNCHANGED <<logs, reqVars, invVars, exec, tMock, tClean, nodeIdx, kCur, kCurErr, attempt>>

\* GitHubClient.FetchBareMetalConfig
TalosFetchBareMetal ==
  /\ pc = "t_fetchBM"
  /\ UNCHANGED <<mainVars, delays, fsVars, imgVars, handlers, siteVars>>
  /\ \/ /\ calls' = Append(calls, Call("talos", "FetchBareMetalConfig", "", FALSE))
        /\ TalosReturns("failed to fetch bare-metal config")
     \/ /\ calls' = Append(calls, Call("talos", "FetchBareMetalConfig", "", TRUE))
        /\ pc' = "t_schematic"
        /\ UNCHANGED <<tRet, kMock, kClean, ret, kRet, hVars>>
  /\ UNCHANGED <<logs, reqVars, invVars, exec, tVars, kCur, kCurErr, attempt>>

\* The identifiers CreateSchematic may return on a 200/201 answer: response.ID
\* is "" when the decoded body has no id or an empty one.
SchematicIDs == {"", "ce4c98"}

\* An image reference whose tag is the clean version without a "v".
InstallerImageBareTag(id, cleanVersion) ==
  "factory.talos.dev/metal-installer-secureboot/" \o id \o ":" \o cleanVersion

\* installerImage of UpgradeToVersion.
InstallerImage(id, cleanVersion) ==
  "factory.talos.dev/metal-installer-secureboot/" \o id \o ":v" \o cleanVersion

\* ImageFactoryClient.CreateSchematic
TalosCreateSchematic ==
  /\ pc = "t_schematic"
  /\ UNCHANGED <<mainVars, delays, fsVars, nodeImages, handlers, siteVars>>
  /\ \/ /\ calls' = Append(calls, Call("talos", "CreateSchematic", "", FALSE))
        /\ TalosReturns("failed to create schematic")
        /\ UNCHANGED <<nodeIdx, schematicID>>
     \/ \E id \in SchematicIDs :
        /\ calls' = Append(calls, Call("talos", "CreateSchematic", "", TRUE))
        /\ schematicID' = id
        /\ nodeIdx' = 1
        /\ pc' = "t_node"
        /\ UNCHANGED <<tRet, kMock, kClean, ret, kRet, hVars>>
  /\ UNCHANGED <<logs, reqVars, invVars, exec, tMock, tClean, tCur, tCurErr, kCur, kCurErr,
                 attempt>>

\* Time of the latest transcript creation, in seconds (0: none yet).
LastTimestamp == IF logs = <<>> THEN 0 ELSE logs[Len(logs)].ts

\* time.Now() formatted 20060102-150405 when the next transcript is created:
\* the same second as the latest creation, or a later one.
Timestamps == {LastTimestamp, LastTimestamp + 1}

\* upgradeNode: talos-upgrade-node-<node>-<version>-<timestamp>.log
TalosLogFile(node, version, ts) ==
  [prefix |-> "talos-upgrade-node", node |-> node, version |-> version, ts |-> ts]

\* runUpgradeCommand: k8s-upgrade-<version>-<timestamp>.log
K8sLogFile(version, ts) ==
  [prefix |-> "k8s-upgrade", node |-> "", version |-> version, ts |-> ts]

\* os.Create(logFilePath): the file is created, or truncated when it exists.
CreateLog(created, file) == logs' = IF created THEN Append(logs, file) ELSE logs

\* A node loop that goes on after a failed node.
NextNodeIgnoringFailure(i, n, ok) == IF i < n THEN i + 1 ELSE 0

\* What the node loop does after upgradeNode returned for the node at index i
\* of n nodes: the next index, or 0 when the loop is left.
\* A loop that goes on with the node after the failed one.
NextNodeSkippingFailed(i, n, ok) == IF i < n THEN i + 1 ELSE 0

NextNode(i, n, ok) == IF ok /\ i < n THEN i + 1 ELSE 0

\* One iteration of the node loop: upgradeNode(node, installerImage, version).
TalosUpgradeNode ==
  /\ pc = "t_node"
  /\ UNCHANGED <<mainVars, delays, fsVars, schematicID, handlers, siteVars>>
  /\ LET node == allNodes[nodeIdx] IN
     \E outcome \in {"log fails", "command fails", "ok"} :
       LET next == NextNode(nodeIdx, Len(allNodes), outcome = "ok") IN
       /\ calls' =
            IF outcome = "log fails"
            THEN Append(calls, Call("talos", "CreateLog", node, FALSE))
            ELSE calls \o <<Call("talos", "CreateLog", node, TRUE),
                            Call("talos", "UpgradeNode", node, outcome = "ok")>>
       /\ \E ts \in Timestamps :
            CreateLog(outcome # "log fails", TalosLogFile(node, tClean, ts))
       /\ nodeImages' = Append(nodeImages, InstallerImage(schematicID, tClean))
       /\ IF next # 0
          THEN /\ nodeIdx' = next
               /\ UNCHANGED <<pc, tRet, kMock, kClean, ret, kRet, hVars>>
          ELSE /\ TalosReturns(IF outcome = "ok" THEN "ok" ELSE "failed to upgrade node")
               /\ UNCHANGED nodeIdx
  /\ UNCHANGED <<reqVars, invVars, exec, tMock, tClean, tCur, tCurErr, kCur, kCurErr,
                 attempt>>

(***************************************************************************)
(* Orchestration-layer upgrade controller: KubernetesUpgrader              *)
(***************************************************************************)
\* Who issues the calls of GetCurrentVersion: the controller, or the version
\* probe of the diagnostics endpoint.
QueryBy ==
  CASE ret = "upgrade" -> "k8s"
    [] ret = "probe" -> "diag"
    [] OTHER -> "api"

\* A decision without the already-current test.
K8sDecisionWithoutNoop(executeCommands, err, currentVersion, cleanVersion) ==
  IF err # "" /\ executeCommands THEN "fail"
  ELSE IF err = "" /\ isDowngrade(currentVersion, cleanVersion) THEN "downgrade"
  ELSE IF ~executeCommands THEN "dry"
  ELSE "proceed"

\* A decision that goes on in live mode when the current version is unknown.
K8sDecisionIgnoringError(executeCommands, err, currentVersion, cleanVersion) ==
  IF err = "" /\ currentVersion = cleanVersion THEN "noop"
  ELSE IF err = "" /\ isDowngrade(currentVersion, cleanVersion) THEN "downgrade"
  ELSE IF ~executeCommands THEN "dry"
  ELSE "proceed"

\* A decision that reports a dry run before it compares the versions.
K8sDecisionDryRunFirst(executeCommands, err, currentVersion, cleanVersion) ==
  IF err # "" /\ executeCommands THEN "fail"
  ELSE IF ~executeCommands THEN "dry"
  ELSE IF err = "" /\ currentVersion = cleanVersion THEN "noop"
  ELSE IF err = "" /\ isDowngrade(currentVersion, cleanVersion) THEN "downgrade"
  ELSE "proceed"

\* The decision of UpgradeToVersion once GetCurrentVersion returned: "fail",
\* "noop", "downgrade", "dry" or "proceed".
K8sDecision(executeCommands, err, currentVersion, cleanVersion) ==
  IF err # "" /\ executeCommands THEN "fail"
  ELSE IF err = "" /\ currentVersion = cleanVersion THEN "noop"
  ELSE IF err = "" /\ isDowngrade(currentVersion, cleanVersion) THEN "downgrade"
  ELSE IF ~executeCommands THEN "dry"
  ELSE "proceed"

\* GetCurrentVersion returns (version, err) to its caller; UpgradeToVersion
\* decides and runs up to the dry-run.
K8sQueryReturns(version, err) ==
  /\ kCur' = version
  /\ kCurErr' = err
  /\ IF ret # "upgrade"
     THEN /\ pc' = IF ret = "probe" THEN "dg_probe_talos" ELSE "api_returned"
          /\ UNCHANGED <<kRet, hVars>>
     ELSE LET d == K8sDecision(exec, err, version, kClean) IN
          IF d = "proceed"
          THEN /\ pc' = "k_dry"
               /\ UNCHANGED <<kRet, hVars>>
          ELSE K8sReturns(CASE d = "fail" -> "cannot determine current version"
                            [] d = "downgrade" -> "refusing to downgrade"
                            [] OTHER -> "ok")

\* A resolution that prefers the override whatever executeCommands is.
K8sResolvedPreferringMock(realVersion, executeCommands, mockCurrentVersion) ==
  IF mockCurrentVersion # "" THEN mockCurrentVersion ELSE TrimPrefix(realVersion, "v")

\* The value GetCurrentVersion returns once /version answered realVersion.
K8sResolved(realVersion, executeCommands, mockCurrentVersion) ==
  IF ~executeCommands /\ mockCurrentVersion # "" THEN mockCurrentVersion
  ELSE TrimPrefix(realVersion, "v")

\* A loop that sleeps after every failed attempt.
SleepsAfterEveryAttempt(n) == TRUE

\* getAPIServerVersion sleeps retryDelay after failed attempt n.
SleepsAfter(n) == n < maxRetries

\* A fetchKubeconfig without the deferred os.Remove.
KeepTemp(files, path) == files

\* The deferred os.Remove(tmpPath) of fetchKubeconfig.
RemoveTemp(files, path) == files \ {path}

\* The names os.CreateTemp("", "talos-kubeconfig-*.yaml") can give.
TempNames == {"talos-kubeconfig-1.yaml", "talos-kubeconfig-2.yaml"}

\* os.CreateTemp gives a name that no file has (the first such name stands for
\* any of them).
CreateTemp(files) ==
  IF "talos-kubeconfig-1.yaml" \notin files THEN "talos-kubeconfig-1.yaml"
  ELSE "talos-kubeconfig-2.yaml"

\* GetCurrentVersion is entered; fetchKubeconfig creates its temporary file.
K8sCreateTemp ==
  /\ pc = "kq_kubeconfig"
  /\ UNCHANGED <<mainVars, imgVars, handlers, siteVars>>
  /\ delays' = <<>>
  /\ \/ /\ K8sQueryReturns("", "failed to fetch kubeconfig")
        /\ UNCHANGED <<fsVars, attempt>>
     \/ /\ TempNames \ tmpFiles # {}
        /\ tmpPath' = CreateTemp(tmpFiles)
        /\ tmpFiles' = tmpFiles \cup {CreateTemp(tmpFiles)}
        /\ pc' = "kq_talosctl"
        /\ UNCHANGED <<kCur, kCurErr, kRet, hVars, attempt>>
  /\ UNCHANGED <<calls, logs, reqVars, invVars, exec, tVars, kMock, kClean, ret, tRet>>

\* fetchKubeconfig from the talosctl command on (the command, os.ReadFile, the
\* deferred os.Remove) and parseKubeconfigForCreds.
K8sFetchKubeconfig ==
  /\ pc = "kq_talosctl"
  /\ UNCHANGED <<imgVars, handlers, siteVars>>
  /\ UNCHANGED <<mainVars, delays>>
  /\ tmpFiles' = RemoveTemp(tmpFiles, tmpPath)
  /\ tmpPath' = ""
  /\ \/ /\ calls' = Append(calls, Call(QueryBy, "Kubeconfig", controlPlaneNode, FALSE))
        /\ K8sQueryReturns("", "failed to fetch kubeconfig")
        /\ UNCHANGED attempt
     \/ /\ calls' = Append(calls, Call(QueryBy, "Kubeconfig", controlPlaneNode, TRUE))
        /\ \/ /\ K8sQueryReturns("", "failed to fetch kubeconfig")
              /\ UNCHANGED attempt
           \/ /\ K8sQueryReturns("", "failed to parse kubeconfig")
              /\ UNCHANGED attempt
           \/ /\ attempt' = 1
              /\ pc' = "kq_https"
              /\ UNCHANGED <<kCur, kCurErr, kRet, hVars>>
  /\ UNCHANGED <<logs, reqVars, invVars, exec, tVars, kMock, kClean, ret, tRet>>

\* getAPIServerVersion: one iteration of the retry loop; the gitVersion of a
\* successful attempt is recorded as the call's arg.
K8sHttpsAttempt ==
  /\ pc = "kq_https"
  /\ UNCHANGED <<mainVars, fsVars, imgVars, handlers, siteVars>>
  /\ \/ \E f \in HttpsFailures :
          /\ calls' = Append(calls, Call(QueryBy, "HttpsVersion", f, FALSE))
          /\ delays' = IF SleepsAfter(attempt) THEN Append(delays, attempt) ELSE delays
          /\ IF attempt < maxRetries
             THEN /\ attempt' = attempt + 1
                  /\ kCurErr' = f
                  /\ UNCHANGED <<pc, kCur, kRet, hVars>>
             ELSE /\ K8sQueryReturns("", f)
                  /\ UNCHANGED attempt
     \/ \E g \in GitVersions :
          /\ calls' = Append(calls, Call(QueryBy, "HttpsVersion", g, TRUE))
          /\ K8sQueryReturns(K8sResolved(g, exec, kMock), "")
          /\ UNCHANGED <<attempt, delays>>
  /\ UNCHANGED <<logs, reqVars, invVars, exec, tVars, kMock, kClean, ret, tRet>>

\* runUpgradeCommand(version, node, dryRun, executeCommands): the calls it makes
\* for an outcome, and whether it returns nil.
RunUpgradeCalls(dryRun, executeCommands, outcome) ==
  LET arg == IF dryRun THEN "--dry-run" ELSE "" IN
  IF outcome = "log fails" THEN <<Call("k8s", "CreateLog", arg, FALSE)>>
  ELSE IF ~executeCommands THEN <<Call("k8s", "CreateLog", arg, TRUE)>>
  ELSE <<Call("k8s", "CreateLog", arg, TRUE), Call("k8s", "UpgradeK8s", arg, outcome = "ok")>>

RunUpgradeOk(executeCommands, outcome) ==
  outcome # "log fails" /\ (~executeCommands \/ outcome = "ok")

\* An UpgradeToVersion that goes on whatever the dry-run returned.
AfterDryRunAlways(ok) == TRUE

\* Whether UpgradeToVersion goes on to the actual upgrade after the dry-run
\* returned.
AfterDryRun(ok) == ok

\* UpgradeToVersion: the dry-run.
K8sDryRun ==
  /\ pc = "k_dry"
  /\ UNCHANGED <<mainVars, delays, fsVars, imgVars, handlers, siteVars>>
  /\ \E outcome \in {"log fails", "command fails", "ok"} :
       /\ calls' = calls \o RunUpgradeCalls(TRUE, exec, outcome)
       /\ \E ts \in Timestamps : CreateLog(outcome # "log fails", K8sLogFile(kClean, ts))
       /\ IF AfterDryRun(RunUpgradeOk(exec, outcome))
          THEN /\ pc' = "k_real"
               /\ UNCHANGED <<kRet, hVars>>
          ELSE K8sReturns("dry-run failed")
  /\ UNCHANGED <<reqVars, invVars, exec, tVars, kVars, tRet>>

\* UpgradeToVersion: the actual upgrade.
K8sRealRun ==
  /\ pc = "k_real"
  /\ UNCHANGED <<mainVars, delays, fsVars, imgVars, handlers, siteVars>>
  /\ \E outcome \in {"log fails", "command fails", "ok"} :
       /\ calls' = calls \o RunUpgradeCalls(FALSE, exec, outcome)
       /\ \E ts \in Timestamps : CreateLog(outcome # "log fails", K8sLogFile(kClean, ts))
       /\ K8sReturns(IF RunUpgradeOk(exec, outcome) THEN "ok" ELSE "upgrade failed")
  /\ UNCHANGED <<reqVars, invVars, exec, tVars, kVars, tRet>>

(***************************************************************************)
(* diagnosticsEndpoint                                                     *)
(***************************************************************************)
ReceiveDiagnostics ==
  /\ pc = "idle"
  /\ UNCHANGED <<mainVars, delays, fsVars, imgVars, handlers, siteVars>>
  /\ \E r \in DiagnosticsRequests : req' = r
  /\ kind' = "diag"
  /\ pc' = "dg_auth"
  /\ UNCHANGED <<resp, invVars, exec, tVars, kVars, tRet, kRet, puErr, results, calls,
                 logs>>

\* An authorization check that accepts any bearer token.
DiagAuthorizedAnyBearer(authHeader) == HasPrefix(authHeader, "Bearer ")

\* The bearer-token check.
DiagAuthorized(authHeader) ==
  /\ authHeader # ""
  /\ HasPrefix(authHeader, "Bearer ")
  /\ TrimPrefix(authHeader, "Bearer ") = DiagnosticsToken

\* The method check and the authorization check.
DiagAuth ==
  /\ pc = "dg_auth"
  /\ UNCHANGED <<mainVars, delays, fsVars, imgVars, handlers, siteVars>>
  /\ IF req.method # "GET" THEN Reply(405)
     ELSE IF ~DiagAuthorized(req.auth) THEN Reply(401)
     ELSE pc' = "dg_github" /\ UNCHANGED resp
  /\ UNCHANGED <<logs, reqVars, invVars, exec, tVars, kVars, tRet, kRet, puErr, results, calls>>

\* Test 1: GitHub API.
DiagGithub ==
  /\ pc = "dg_github"
  /\ UNCHANGED <<mainVars, delays, fsVars, imgVars, handlers, siteVars>>
  /\ \E ok \in BOOLEAN :
       /\ calls' = Append(calls, Call("diag", "FetchVersions", "", ok))
       /\ results' = [results EXCEPT !.github_api = IF ok THEN "success" ELSE "failed"]
  /\ pc' = "dg_config"
  /\ UNCHANGED <<logs, reqVars, resp, invVars, exec, tVars, kVars, tRet, kRet, puErr>>

\* Test 2: talos config parsing; controlPlaneNode is "" when
\* GetFirstControlPlaneNode fails (its error is dropped).
DiagConfig ==
  /\ pc = "dg_config"
  /\ UNCHANGED <<mainVars, delays, fsVars, imgVars, handlers, siteVars>>
  /\ \/ /\ calls' = Append(calls, Call("diag", "ParseConfig", "", FALSE))
        /\ results' = [results EXCEPT !.talos_config = "failed"]
        /\ UNCHANGED controlPlaneNode
     \/ \E config \in InventoryFiles :
          /\ calls' = Append(calls, Call("diag", "ParseConfig", "", TRUE))
          /\ results' = [results EXCEPT !.talos_config = "success"]
          /\ controlPlaneNode' \in
               IF GetFirstControlPlaneNode(config) = {} THEN {""}
               ELSE GetFirstControlPlaneNode(config)
  /\ pc' = "dg_baremetal"
  /\ UNCHANGED <<logs, reqVars, resp, versions, allNodes, exec, tVars, kVars, tRet, kRet, puErr>>

\* Test 3: bare metal config.
DiagBareMetal ==
  /\ pc = "dg_baremetal"
  /\ UNCHANGED <<mainVars, delays, fsVars, imgVars, handlers, siteVars>>
  /\ \E ok \in BOOLEAN :
       /\ calls' = Append(calls, Call("diag", "FetchBareMetalConfig", "", ok))
       /\ results' = [results EXCEPT !.bare_metal_config = IF ok THEN "success" ELSE "failed"]
  /\ pc' = "dg_factory"
  /\ UNCHANGED <<logs, reqVars, resp, invVars, exec, tVars, kVars, tRet, kRet, puErr>>

\* Test 4: Image Factory API. Test 5 follows when talosConfig is not nil: the
\* temporary upgraders are queried with executeCommands = true.
DiagImageFactory ==
  /\ pc = "dg_factory"
  /\ UNCHANGED <<mainVars, delays, fsVars, imgVars, handlers, siteVars>>
  /\ \E ok \in BOOLEAN :
       LET r == [results EXCEPT !.image_factory =
                   IF results.bare_metal_config # "success" THEN "skipped"
                   ELSE IF ok THEN "success" ELSE "failed"]
       IN
       /\ results.bare_metal_config # "success" => ok
       /\ calls' = IF results.bare_metal_config = "success"
                   THEN Append(calls, Call("diag", "CreateSchematic", "", ok))
                   ELSE calls
       /\ IF results.talos_config = "success"
          THEN /\ results' = r
               /\ pc' = "kq_kubeconfig"
               /\ ret' = "probe"
               /\ exec' = TRUE
               /\ UNCHANGED resp
          ELSE /\ DiagFinish(r)
               /\ UNCHANGED <<ret, exec>>
  /\ UNCHANGED <<logs, reqVars, invVars, tVars, kMock, kClean, kCur, kCurErr, attempt, tRet, kRet,
                 puErr>>

\* Test 5: tempTalosUpgrader.GetCurrentVersion(true).
DiagProbeTalos ==
  /\ pc = "dg_probe_talos"
  /\ UNCHANGED <<mainVars, delays, fsVars, imgVars, handlers, siteVars>>
  /\ \/ calls' = Append(calls, Call("diag", "TalosVersion", "", FALSE))
     \/ \E out \in TalosVersionOutputs :
          calls' = Append(calls, Call("diag", "TalosVersion", out, TRUE))
  /\ results' = [results EXCEPT !.cluster_versions = "success"]
  /\ pc' = "dg_rehearse"
  /\ UNCHANGED <<logs, reqVars, resp, invVars, exec, tVars, kVars, tRet, kRet, puErr>>

\* processUpgradeWithTestOverrides is entered: its locals are fresh, the
\* controllers it builds run with executeCommands = false.
DiagRehearse ==
  /\ pc = "dg_rehearse"
  /\ UNCHANGED <<fsVars, imgVars, handlers, siteVars>>
  /\ delays' = <<>>
  /\ UNCHANGED mainVars
  /\ pc' = "pu_fetch"
  /\ controlPlaneNode' = ""
  /\ exec' = FALSE
  /\ kCur' = ""
  /\ kCurErr' = ""
  /\ attempt' = 0
  /\ ret' = ""
  /\ calls' = <<>>
  /\ UNCHANGED <<logs, reqVars, resp, versions, allNodes, tVars, kMock, kClean, tRet, kRet,
                 puErr, results>>

Next ==
  \/ ReceiveWebhook
  \/ WebhookRead
  \/ WebhookVerify
  \/ WebhookFilter
  \/ FetchVersions
  \/ ParseConfig
  \/ TalosGetCurrent
  \/ TalosFetchBareMetal
  \/ TalosCreateSchematic
  \/ TalosUpgradeNode
  \/ K8sCreateTemp
  \/ K8sFetchKubeconfig
  \/ K8sHttpsAttempt
  \/ K8sDryRun
  \/ K8sRealRun
  \/ ReceiveDiagnostics
  \/ DiagAuth
  \/ DiagGithub
  \/ DiagConfig
  \/ DiagBareMetal
  \/ DiagImageFactory
  \/ DiagProbeTalos
  \/ DiagRehearse
  \/ Return

Spec == Init /\ [][Next]_vars

(***************************************************************************)
(* The controllers' exported methods called directly: an upgrader on which *)
(* SetMockCurrentVersion set any value, then GetCurrentVersion with either *)
(* executeCommands, first the OS controller's, then the orchestration      *)
(* layer's. SpecApi is the service together with these callers.            *)
(***************************************************************************)
\* Values given to SetMockCurrentVersion ("" when it was not called).
ApiMocks == {"", "1.9.0", "7.7.7"}

InitApi ==
  /\ pc = "api_talos"
  /\ kind = "api"
  /\ req = NoRequest
  /\ resp = 0
  /\ versions = NoVersions
  /\ allNodes = <<>>
  /\ controlPlaneNode = "e1"
  /\ exec \in BOOLEAN
  /\ tMock \in ApiMocks
  /\ kMock \in ApiMocks
  /\ tClean = ""
  /\ tCur = ""
  /\ tCurErr = ""
  /\ kClean = ""
  /\ kCur = ""
  /\ kCurErr = ""
  /\ nodeIdx = 0
  /\ attempt = 0
  /\ tRet = "none"
  /\ kRet = "none"
  /\ puErr = ""
  /\ ret = "api"
  /\ results = NoResults
  /\ calls = <<>>
  /\ logs = <<>>
  /\ env = ServingEnv
  /\ cfg = loadConfig(ServingEnv)
  /\ fatal = ""
  /\ exitCode = 0
  /\ listenPort = loadConfig(ServingEnv).Port
  /\ delays = <<>>
  /\ tmpFiles = {}
  /\ tmpPath = ""
  /\ schematicID = ""
  /\ nodeImages = <<>>
  /\ handlers = [h \in Handlers |-> IdleHandler]
  /\ site = NoSite
  /\ run = NoRun
  /\ prior = NoRun

\* TalosUpgrader.GetCurrentVersion(executeCommands); the orchestration layer's
\* GetCurrentVersion is called next.
ApiTalosGetCurrentVersion ==
  /\ pc = "api_talos"
  /\ UNCHANGED <<mainVars, delays, fsVars, imgVars, handlers, siteVars>>
  /\ IF ~exec
     THEN /\ tCur' = TalosMockVersion(tMock)
          /\ tCurErr' = ""
          /\ UNCHANGED calls
     ELSE \/ /\ calls' = Append(calls, Call("api", "TalosVersion", "", FALSE))
             /\ tCur' = ""
             /\ tCurErr' = "failed to get current Talos version"
          \/ \E out \in TalosVersionOutputs :
               /\ calls' = Append(calls, Call("api", "TalosVersion", out, TRUE))
               /\ tCur' = TalosCommandResult(out)[1]
               /\ tCurErr' = TalosCommandResult(out)[2]
  /\ pc' = "kq_kubeconfig"
  /\ UNCHANGED <<logs, reqVars, resp, invVars, exec, tMock, tClean, nodeIdx, kVars, tRet, kRet,
                 puErr, results>>

NextApi ==
  \/ Next
  \/ ApiTalosGetCurrentVersion

SpecApi == (Init \/ InitApi) /\ [][NextApi]_vars

(***************************************************************************)
(* The process from its start: main, then the service                      *)
(***************************************************************************)
\* The process is started with some environment; nothing has run yet.
InitMain ==
  /\ env \in Environments
  /\ pc = "main"
  /\ kind = "none"
  /\ req = NoRequest
  /\ resp = 0
  /\ versions = NoVersions
  /\ allNodes = <<>>
  /\ controlPlaneNode = ""
  /\ exec = FALSE
  /\ tMock = ""
  /\ kMock = ""
  /\ tClean = ""
  /\ tCur = ""
  /\ tCurErr = ""
  /\ kClean = ""
  /\ kCur = ""
  /\ kCurErr = ""
  /\ nodeIdx = 0
  /\ attempt = 0
  /\ tRet = "none"
  /\ kRet = "none"
  /\ puErr = ""
  /\ ret = ""
  /\ results = NoResults
  /\ calls = <<>>
  /\ logs = <<>>
  /\ cfg = NoConfig
  /\ fatal = ""
  /\ exitCode = 0
  /\ listenPort = ""
  /\ delays = <<>>
  /\ tmpFiles = {}
  /\ tmpPath = ""
  /\ schematicID = ""
  /\ nodeImages = <<>>
  /\ handlers = [h \in Handlers |-> IdleHandler]
  /\ site = NoSite
  /\ run = NoRun
  /\ prior = NoRun

\* main up to ListenAndServe: loadConfig, then the validation; log.Fatal
\* prints the message and exits with status 1.
Main ==
  /\ pc = "main"
  /\ UNCHANGED <<delays, fsVars, imgVars, handlers, siteVars>>
  /\ cfg' = loadConfig(env)
  /\ IF RequiredVariable(loadConfig(env)) # ""
     THEN /\ fatal' = RequiredVariable(loadConfig(env))
                        \o " environment variable is required"
          /\ exitCode' = 1
          /\ pc' = "exited"
     ELSE /\ pc' = "listen"
          /\ UNCHANGED <<fatal, exitCode>>
  /\ UNCHANGED <<env, listenPort, logs, reqVars, invVars, exec, tVars, kVars, tRet, kRet,
                 hVars, calls>>

\* http.ListenAndServe(":" + config.Port): the server listens and serves, or
\* the call returns an error, which main gives to log.Fatal.
ListenAndServe ==
  /\ pc = "listen"
  /\ UNCHANGED <<delays, fsVars, imgVars, handlers, siteVars>>
  /\ \/ /\ listenPort' = cfg.Port
        /\ pc' = "idle"
        /\ UNCHANGED <<fatal, exitCode>>
     \/ /\ fatal' = "listen"
        /\ exitCode' = 1
        /\ pc' = "exited"
        /\ UNCHANGED listenPort
  /\ UNCHANGED <<env, cfg, logs, reqVars, invVars, exec, tVars, kVars, tRet, kRet,
                 hVars, calls>>

NextMain ==
  \/ Main
  \/ ListenAndServe
  \/ Next

SpecMain == InitMain /\ [][NextMain]_vars

(***************************************************************************)
(* Webhook requests served concurrently: net/http runs handleWebhook in a  *)
(* goroutine per connection; a step is the start or the return of a        *)
(* command                                                                 *)
(***************************************************************************)
\* The cluster inventory the concurrent dispatches read.
ConcNodes == <<"n2", "n1">>

\* A gateway that turns a trigger away while another dispatch is in progress.
DispatchesWhenFree(busy) == ~busy

\* What handleWebhook asks about other dispatches before it calls
\* processUpgrade: nothing; busy says whether another handler is dispatching.
Dispatches(busy) == TRUE

\* Handler h is inside processUpgrade.
Dispatching(h) ==
  handlers[h].pc \in {"pu", "node_start", "node_running", "k8s", "k8s_running"}

\* A mutating command of handler h has started and has not returned.
InFlight(h) == handlers[h].pc \in {"node_running", "k8s_running"}

\* The server accepts a POST and starts handleWebhook in a new goroutine.
CReceive ==
  \E h \in Handlers, ok \in BOOLEAN, rel \in BOOLEAN :
    /\ handlers[h].pc = "idle"
    /\ handlers' = [handlers EXCEPT ![h] = [IdleHandler EXCEPT !.pc = "wh_verify",
                                                             !.sigOk = ok,
                                                             !.relevant = rel]]
    /\ UNCHANGED <<soloVars, siteVars>>

\* handleWebhook from the signature check to the call of processUpgrade.
CVerifyFilter ==
  \E h \in Handlers :
    /\ handlers[h].pc = "wh_verify"
    /\ handlers' =
         [handlers EXCEPT ![h] =
            IF ~handlers[h].sigOk THEN [@ EXCEPT !.pc = "done", !.resp = 401]
            ELSE IF ~handlers[h].relevant THEN [@ EXCEPT !.pc = "done", !.resp = 200]
            ELSE IF Dispatches(\E g \in Handlers \ {h} : Dispatching(g))
                 THEN [@ EXCEPT !.pc = "pu"]
                 ELSE [@ EXCEPT !.pc = "done", !.resp = 503]]
    /\ UNCHANGED <<soloVars, siteVars>>

\* processUpgrade up to the node loop: an error before any command, an OS
\* layer that is already current, or an upgrade that is needed.
CProcessUpgrade ==
  \E h \in Handlers, o \in {"error", "current", "upgrade"} :
    /\ handlers[h].pc = "pu"
    /\ handlers' =
         [handlers EXCEPT ![h] =
            CASE o = "error" -> [@ EXCEPT !.pc = "done", !.resp = 500]
              [] o = "current" -> [@ EXCEPT !.pc = "k8s"]
              [] OTHER -> [@ EXCEPT !.pc = "node_start", !.idx = 1]]
    /\ UNCHANGED <<soloVars, siteVars>>

\* upgradeNode starts talosctl upgrade for the node of the iteration.
CStartNode ==
  \E h \in Handlers :
    /\ handlers[h].pc = "node_start"
    /\ handlers' = [handlers EXCEPT ![h].pc = "node_running"]
    /\ UNCHANGED <<soloVars, siteVars>>

\* cmd.Run returns: the loop goes on, ends, or returns the error.
CFinishNode ==
  \E h \in Handlers, ok \in BOOLEAN :
    /\ handlers[h].pc = "node_running"
    /\ handlers' =
         [handlers EXCEPT ![h] =
            IF ~ok THEN [@ EXCEPT !.pc = "done", !.resp = 500]
            ELSE IF NextNode(handlers[h].idx, Len(ConcNodes), TRUE) # 0
                 THEN [@ EXCEPT !.pc = "node_start",
                                !.idx = NextNode(handlers[h].idx, Len(ConcNodes), TRUE)]
                 ELSE [@ EXCEPT !.pc = "k8s"]]
    /\ UNCHANGED <<soloVars, siteVars>>

\* The orchestration-layer controller up to the start of its real upgrade
\* command: it returns without one, or the command starts.
CStartK8s ==
  \E h \in Handlers, o \in {"error", "current", "upgrade"} :
    /\ handlers[h].pc = "k8s"
    /\ handlers' =
         [handlers EXCEPT ![h] =
            CASE o = "error" -> [@ EXCEPT !.pc = "done", !.resp = 500]
              [] o = "current" -> [@ EXCEPT !.pc = "done", !.resp = 200]
              [] OTHER -> [@ EXCEPT !.pc = "k8s_running"]]
    /\ UNCHANGED <<soloVars, siteVars>>

\* The real upgrade command returns; handleWebhook answers.
CFinishK8s ==
  \E h \in Handlers, ok \in BOOLEAN :
    /\ handlers[h].pc = "k8s_running"
    /\ handlers' = [handlers EXCEPT ![h] = [@ EXCEPT !.pc = "done",
                                                     !.resp = IF ok THEN 200 ELSE 500]]
    /\ UNCHANGED <<soloVars, siteVars>>

\* The handler has written its status and returns; its goroutine ends.
CReturn ==
  \E h \in Handlers :
    /\ handlers[h].pc = "done"
    /\ handlers' = [handlers EXCEPT ![h] = IdleHandler]
    /\ UNCHANGED <<soloVars, siteVars>>

NextConc ==
  \/ CReceive
  \/ CVerifyFilter
  \/ CProcessUpgrade
  \/ CStartNode
  \/ CFinishNode
  \/ CStartK8s
  \/ CFinishK8s
  \/ CReturn

SpecConc == Init /\ [][NextConc]_vars

(***************************************************************************)
(* The trigger gateway alone: webhook requests, every step of the handler  *)
(* eventually taken (each external call returns)                           *)
(***************************************************************************)
NextGateway ==
  \/ ReceiveWebhook
  \/ WebhookRead
  \/ WebhookVerify
  \/ WebhookFilter
  \/ FetchVersions
  \/ ParseConfig
  \/ TalosGetCurrent
  \/ TalosFetchBareMetal
  \/ TalosCreateSchematic
  \/ TalosUpgradeNode
  \/ K8sCreateTemp
  \/ K8sFetchKubeconfig
  \/ K8sHttpsAttempt
  \/ K8sDryRun
  \/ K8sRealRun
  \/ Return

SpecGateway == Init /\ [][NextGateway]_vars /\ WF_vars(NextGateway)

(***************************************************************************)
(* The service at a site.  The cluster, the talosctl binary and the        *)
(* inventory file persist from one dispatch to the next and nobody else    *)
(* changes them; a step is a stretch of processUpgrade between two reads   *)
(* or writes of the cluster                                                *)
(***************************************************************************)
\* What the talosctl binary of the service prints after "Client: Talos ".
SiteClients == {"v1.9.0", "v1.10.0"}

\* The inventory file: one context, or two contexts that both have endpoints
\* and nodes.
SiteContext == [endpoints |-> <<"e1">>, nodes |-> <<"n2", "n1">>]

OtherContext == [endpoints |-> <<"e2">>, nodes |-> <<"n3">>]

SiteInventories == {{SiteContext}, {SiteContext, OtherContext}}

SiteNodes == {"n1", "n2", "n3"}

\* The version every node, and the orchestration layer, runs at the start.
SiteVersions == {"1.9.0", "1.10.0"}

\* The desired versions the version file declares when a trigger arrives.
SiteTargets == [talos : {"1.9.0", "v1.10.0"}, k8s : {"1.9.0", "v1.10.0"}]

Sites ==
  { [client |-> c, inventory |-> f, os |-> [n \in SiteNodes |-> v], k8s |-> k] :
      c \in SiteClients, f \in SiteInventories, v \in SiteVersions, k \in SiteVersions }

InitSite ==
  /\ pc = "idle"
  /\ kind = "none"
  /\ req = NoRequest
  /\ resp = 0
  /\ versions = NoVersions
  /\ allNodes = <<>>
  /\ controlPlaneNode = ""
  /\ exec = FALSE
  /\ tMock = ""
  /\ kMock = ""
  /\ tClean = ""
  /\ tCur = ""
  /\ tCurErr = ""
  /\ kClean = ""
  /\ kCur = ""
  /\ kCurErr = ""
  /\ nodeIdx = 0
  /\ attempt = 0
  /\ tRet = "none"
  /\ kRet = "none"
  /\ puErr = ""
  /\ ret = ""
  /\ results = NoResults
  /\ calls = <<>>
  /\ logs = <<>>
  /\ env = ServingEnv
  /\ cfg = loadConfig(ServingEnv)
  /\ fatal = ""
  /\ exitCode = 0
  /\ listenPort = loadConfig(ServingEnv).Port
  /\ delays = <<>>
  /\ tmpFiles = {}
  /\ tmpPath = ""
  /\ schematicID = ""
  /\ nodeImages = <<>>
  /\ handlers = [h \in Handlers |-> IdleHandler]
  /\ site \in Sites
  /\ run = NoRun
  /\ prior = NoRun

\* handleWebhook accepts a verified trigger that modifies the version file;
\* processUpgrade fetches the desired versions and reads the inventory.
SDeliver ==
  /\ run.pc = "idle"
  /\ \/ run' = [NoRun EXCEPT !.pc = "done", !.resp = DispatchStatus("failed to fetch versions"),
                             !.envOk = FALSE]
     \/ \E v \in SiteTargets :
          IF GetAllNodes(site.inventory) = {} \/ GetFirstControlPlaneNode(site.inventory) = {}
          THEN run' = [NoRun EXCEPT !.pc = "done", !.versions = v,
                                    !.resp = DispatchStatus("failed to get cluster nodes")]
          ELSE \E nodes \in GetAllNodes(site.inventory) :
               \E endpoint \in GetFirstControlPlaneNode(site.inventory) :
                 run' = [NoRun EXCEPT !.pc = "talos", !.versions = v, !.nodes = nodes,
                                      !.endpoint = endpoint]
  /\ UNCHANGED <<site, prior, soloVars, handlers>>

\* TalosUpgrader.UpgradeToVersion(executeCommands = true) up to the node loop:
\* `talosctl version --short`, the decision, the manifest fetch and the image
\* build.
STalosDecide ==
  /\ run.pc = "talos"
  /\ LET clean == TrimPrefix(run.versions.talos, "v") IN
     IF ~TalosIsValidVersion(run.versions.talos)
     THEN run' = [run EXCEPT !.pc = "done", !.resp = DispatchStatus("talos upgrade failed")]
     ELSE \E r \in {<<"", "failed to get current Talos version">>,
                    TalosCommandResult(site.client)} :
            LET d == TalosDecision(TRUE, r[2], r[1], clean) IN
            CASE d = "fail" ->
                   run' = [run EXCEPT !.pc = "done", !.tCur = r[1], !.tDecision = d,
                                      !.envOk = FALSE,
                                      !.resp = DispatchStatus("talos upgrade failed")]
              [] d = "noop" ->
                   run' = [run EXCEPT !.pc = "k8s", !.tCur = r[1], !.tDecision = d]
              [] OTHER ->
                   \E o \in {"manifest fetch fails", "image build fails", "ok"} :
                     run' = [run EXCEPT
                               !.tCur = r[1],
                               !.tDecision = d,
                               !.cmds = @ \cup (IF o = "manifest fetch fails"
                                                THEN {"FetchBareMetalConfig"}
                                                ELSE {"FetchBareMetalConfig",
                                                      "CreateSchematic"}),
                               !.envOk = (o = "ok"),
                               !.idx = IF o = "ok" THEN 1 ELSE 0,
                               !.pc = IF o = "ok" THEN "node" ELSE "done",
                               !.resp = IF o = "ok" THEN 0
                                        ELSE DispatchStatus("talos upgrade failed")]
  /\ UNCHANGED <<site, prior, soloVars, handlers>>

\* One iteration of the node loop: talosctl upgrade installs the target on the
\* node when it succeeds.
SUpgradeNode ==
  /\ run.pc = "node"
  /\ \E ok \in BOOLEAN :
       LET node == run.nodes[run.idx]
           next == NextNode(run.idx, Len(run.nodes), ok)
       IN
       /\ site' = IF ok THEN [site EXCEPT !.os[node] = TrimPrefix(run.versions.talos, "v")]
                  ELSE site
       /\ run' = [run EXCEPT
                    !.cmds = @ \cup {"UpgradeNode"},
                    !.envOk = ok,
                    !.idx = IF next # 0 THEN next ELSE @,
                    !.pc = IF next # 0 THEN "node" ELSE IF ok THEN "k8s" ELSE "done",
                    !.resp = IF next = 0 /\ ~ok THEN DispatchStatus("talos upgrade failed")
                             ELSE 0]
  /\ UNCHANGED <<prior, soloVars, handlers>>

\* KubernetesUpgrader.UpgradeToVersion(executeCommands = true) up to the
\* dry-run: the version query of the cluster and the decision.
SK8sDecide ==
  /\ run.pc = "k8s"
  /\ LET clean == TrimPrefix(run.versions.k8s, "v") IN
     IF ~K8sIsValidVersion(run.versions.k8s)
     THEN run' = [run EXCEPT !.pc = "done",
                             !.resp = DispatchStatus("kubernetes upgrade failed")]
     ELSE \E q \in {<<"", "failed to query the cluster">>,
                    <<K8sResolved("v" \o site.k8s, TRUE, ""), "">>} :
            LET d == K8sDecision(TRUE, q[2], q[1], clean) IN
            CASE d = "noop" -> run' = [run EXCEPT !.pc = "done", !.resp = DispatchStatus("")]
              [] d = "proceed" -> run' = [run EXCEPT !.pc = "k8s_run"]
              [] OTHER ->
                   run' = [run EXCEPT !.pc = "done", !.envOk = (d # "fail"),
                                      !.resp = DispatchStatus("kubernetes upgrade failed")]
  /\ UNCHANGED <<site, prior, soloVars, handlers>>

\* The dry-run and, when it succeeds, the actual upgrade, which puts the
\* cluster at the target when it succeeds.
SK8sRun ==
  /\ run.pc = "k8s_run"
  /\ \E o \in {"dry-run fails", "upgrade fails", "ok"} :
       /\ site' = IF o = "ok" THEN [site EXCEPT !.k8s = TrimPrefix(run.versions.k8s, "v")]
                  ELSE site
       /\ run' = [run EXCEPT
                    !.cmds = @ \cup (IF AfterDryRun(o # "dry-run fails")
                                     THEN {"UpgradeK8s --dry-run", "UpgradeK8s"}
                                     ELSE {"UpgradeK8s --dry-run"}),
                    !.envOk = (o = "ok"),
                    !.pc = "done",
                    !.resp = DispatchStatus(IF o = "ok" THEN ""
                                            ELSE "kubernetes upgrade failed")]
  /\ UNCHANGED <<prior, soloVars, handlers>>

\* handleWebhook has answered and returns.
SReturn ==
  /\ run.pc = "done"
  /\ prior' = run
  /\ run' = NoRun
  /\ UNCHANGED <<site, soloVars, handlers>>

NextSite ==
  \/ SDeliver
  \/ STalosDecide
  \/ SUpgradeNode
  \/ SK8sDecide
  \/ SK8sRun
  \/ SReturn

SpecSite == InitSite /\ [][NextSite]_vars

(***************************************************************************)
(* Properties                                                              *)
(***************************************************************************)
Idx == 1..Len(calls)

\* Some call of the history was made by `by` with an operation of ops.
Made(by, ops) == \E i \in Idx : calls[i].by = by /\ calls[i].op \in ops

\* The OS controller resolved its current version.
TalosResolved == tCur # "" /\ tCurErr = ""

\* GetCurrentVersion returned a version to the orchestration-layer controller.
K8sResolved4Upgrade == ret = "upgrade" /\ kCur # "" /\ kCurErr = ""

Live == kind = "webhook"

NonLive == kind = "diag"

\* C1: a target that does not match ^v?\d+\.\d+\.\d+$ makes the controller it
\* is given to return the invalid-version error without any external call by
\* that controller, in live and in non-live runs.
C1_InvalidTargetRejected ==
  /\ ~MatchesVersionRegex(versions.talos) =>
       /\ ~\E i \in Idx : calls[i].by = "talos"
       /\ tRet \in {"none", "invalid version"}
  /\ ~MatchesVersionRegex(versions.k8s) =>
       /\ ~\E i \in Idx : calls[i].by = "k8s"
       /\ kRet \in {"none", "invalid version"}

\* A live dispatch whose OS layer succeeded and whose orchestration-layer target
\* has a non-numeric component was rejected.
C1_Witness ==
  /\ Live
  /\ tRet = "ok"
  /\ versions.k8s = "1.x.0"
  /\ kRet = "invalid version"

\* C2: when the resolved current version equals the target without its leading
\* v, the controller returns success and has made no manifest fetch, no
\* image-build request, no transcript and no upgrade command.
C2_AlreadyCurrentIsNoop ==
  /\ (TalosResolved /\ tCur = tClean) =>
       /\ tRet = "ok"
       /\ ~Made("talos", {"FetchBareMetalConfig", "CreateSchematic", "CreateLog", "UpgradeNode"})
  /\ (K8sResolved4Upgrade /\ kCur = kClean) =>
       /\ kRet = "ok"
       /\ ~Made("k8s", {"CreateLog", "UpgradeK8s"})

\* A live dispatch in which both layers were already at their target.
C2_Witness ==
  /\ Live
  /\ TalosResolved /\ tCur = tClean
  /\ K8sResolved4Upgrade /\ kCur = kClean
  /\ resp = 200

\* C3: when the target is lexicographically less than the current version
\* GetCurrentVersion returned (the queried one, or the mock override of a
\* non-live run), the orchestration-layer controller returns the downgrade
\* error and has run no command, whatever executeCommands is.
C3_LexicographicDowngradeRejected ==
  (K8sResolved4Upgrade /\ Compare(kClean, kCur) < 0) =>
    /\ kRet = "refusing to downgrade"
    /\ ~Made("k8s", {"CreateLog", "UpgradeK8s"})

\* A non-live run rejected a target below its mock current version.
C3_Witness ==
  /\ NonLive
  /\ kMock # ""
  /\ K8sResolved4Upgrade /\ kCur = kMock
  /\ Compare(kClean, kCur) < 0
  /\ kRet = "refusing to downgrade"

\* C4: in a live run whose target is numerically lower than the current version
\* (major, minor, patch as integers), the layer-upgrade command is never
\* issued, neither as a dry-run nor for real.
C4_NoSemanticDowngrade ==
  (Live /\ K8sResolved4Upgrade /\ SemverLess(kClean, kCur)) => ~Made("k8s", {"UpgradeK8s"})

\* C5: with executeCommands = false and a valid target numerically above the
\* current version, each controller returns success and has made no
\* image-build request, no node upgrade and no layer upgrade.
C5_ValidationRunSucceeds ==
  /\ (NonLive /\ TalosResolved /\ SemverLess(tCur, tClean)) =>
       /\ tRet = "ok"
       /\ ~Made("talos", {"CreateSchematic", "UpgradeNode"})
  /\ (NonLive /\ K8sResolved4Upgrade /\ SemverLess(kCur, kClean)) =>
       /\ kRet = "ok"
       /\ ~Made("k8s", {"UpgradeK8s"})

\* A non-live run makes no image-build request and runs no upgrade command.
NonLiveNeverMutates ==
  NonLive => /\ ~Made("talos", {"CreateSchematic", "UpgradeNode"})
             /\ ~Made("k8s", {"UpgradeK8s"})

IsRealUpgrade(c) == c.by = "k8s" /\ c.op = "UpgradeK8s" /\ c.arg = ""

\* C6: the real layer-upgrade command is issued only after the dry-run command
\* has returned success; once the dry-run command or the creation of its
\* transcript failed, the controller has returned an error and neither the
\* real command nor its transcript is ever there.
C6_DryRunPrecedesReal ==
  /\ \A i \in Idx :
       IsRealUpgrade(calls[i]) =>
         \E j \in 1..(i - 1) : calls[j] = Call("k8s", "UpgradeK8s", "--dry-run", TRUE)
  /\ (\E j \in Idx : /\ calls[j].by = "k8s"
                     /\ calls[j].op \in {"CreateLog", "UpgradeK8s"}
                     /\ calls[j].arg = "--dry-run"
                     /\ ~calls[j].ok) =>
       /\ kRet = "dry-run failed"
       /\ ~\E i \in Idx : /\ calls[i].by = "k8s"
                          /\ calls[i].op \in {"CreateLog", "UpgradeK8s"}
                          /\ calls[i].arg = ""

\* A live run issued the real command and it succeeded.
C6_Witness ==
  /\ Live
  /\ kRet = "ok"
  /\ \E i \in Idx : IsRealUpgrade(calls[i]) /\ calls[i].ok

\* The single-node upgrade commands issued so far, in order.
NodeCalls == SelectSeq(calls, LAMBDA c : c.by = "talos" /\ c.op = "UpgradeNode")

\* C7: the single-node upgrade commands follow the node list, position by
\* position, each issued only after the previous one succeeded; a failed node
\* (its command or its transcript) is the last thing the run did and the
\* controller has returned the node error.
C7_NodesInOrderStopOnFailure ==
  /\ Len(NodeCalls) <= Len(allNodes)
  /\ \A i \in 1..Len(NodeCalls) :
       /\ NodeCalls[i].arg = allNodes[i]
       /\ i < Len(NodeCalls) => NodeCalls[i].ok
  /\ \A i \in Idx :
       (calls[i].by = "talos" /\ calls[i].op \in {"CreateLog", "UpgradeNode"} /\ ~calls[i].ok) =>
         /\ i = Len(calls)
         /\ tRet = "failed to upgrade node"

\* The command failed for the first of two nodes and the request is answered.
C7_Witness ==
  /\ Len(allNodes) = 2
  /\ Len(NodeCalls) = 1
  /\ ~NodeCalls[1].ok
  /\ pc = "done"

\* C8: every call of the orchestration-layer controller comes after the OS
\* controller returned success, hence after every call of the OS controller;
\* when the OS controller returned an error the orchestration-layer controller
\* is never invoked.
C8_OsLayerBeforeOrchestrationLayer ==
  /\ \A i \in Idx :
       calls[i].by = "k8s" =>
         /\ tRet = "ok"
         /\ \A j \in Idx : calls[j].by = "talos" => j < i
  /\ kRet # "none" => tRet = "ok"
  /\ tRet \notin {"none", "ok"} =>
       /\ kRet = "none"
       /\ ~\E i \in Idx : calls[i].by = "k8s"

\* A dispatch upgraded a node and then queried the orchestration layer.
C8_Witness ==
  /\ Live
  /\ allNodes # <<>>
  /\ \E i \in Idx : \E j \in Idx :
       /\ i < j
       /\ calls[i] = Call("talos", "UpgradeNode", allNodes[Len(allNodes)], TRUE)
       /\ calls[j].by = "k8s"

\* The header is sha256= followed by the digest of the body under the secret.
ValidSignature == req.signature = "sha256=" \o HexMac(WebhookSecret, req.payload.id)

\* The webhook request is a POST whose body was read.
BodyRead == req.method = "POST" /\ ~req.readErr

\* C9: a webhook body whose signature header is absent, lacks the sha256=
\* prefix or is not the digest of the body under the shared secret is answered
\* 401 whatever the body, and nothing is dispatched for it: no version fetch,
\* no controller.
C9_BadSignatureRejected ==
  (kind = "webhook" /\ ~ValidSignature) =>
    /\ calls = <<>>
    /\ tRet = "none" /\ kRet = "none"
    /\ resp \notin {200, 500}
    /\ (pc = "done" /\ BodyRead) => resp = 401

\* A main-branch notification that modifies the tracked file, signed with
\* another key, was answered 401.
C9_Witness ==
  /\ kind = "webhook"
  /\ pc = "done"
  /\ req.payload.id = "p4"
  /\ req.signature = "sha256=" \o HexMac("xx", "p4")
  /\ resp = 401

\* Some commit of the notification lists the tracked version file as modified.
ModifiesTrackFile(p) ==
  \E i \in DOMAIN p.commits : TrackFile \in {p.commits[i][j] : j \in DOMAIN p.commits[i]}

\* C10: of the correctly signed notifications (POSTed bodies that decode), those
\* for the main branch with the tracked file modified in some commit are
\* dispatched, and only those; every other one is answered 200 without any
\* external call or controller.
C10_DispatchIffRelevant ==
  (kind = "webhook" /\ BodyRead /\ ValidSignature /\ req.payload.json) =>
    LET relevant == req.payload.ref = MainRef /\ ModifiesTrackFile(req.payload) IN
    /\ calls # <<>> => relevant
    /\ (pc = "done" /\ relevant) => calls[1].by = "gateway" /\ calls[1].op = "FetchVersions"
    /\ (pc = "done" /\ ~relevant) =>
         /\ resp = 200
         /\ calls = <<>>
         /\ tRet = "none" /\ kRet = "none"

\* A signed main-branch notification without the tracked file was acknowledged.
C10_Witness ==
  /\ kind = "webhook"
  /\ pc = "done"
  /\ BodyRead /\ ValidSignature
  /\ req.payload.id = "p3"
  /\ resp = 200
  /\ calls = <<>>
\* C11: a dispatch runs the controllers with executeCommands = true; the version
\* fetch and the inventory read are made once each; an error of the fetch, the
\* inventory or a controller ends the dispatch there with the answer 500; the
\* answer is 200 only when the fetch, the inventory read and both controllers
\* succeeded.
C11_DispatchAbortsOnFirstError ==
  (Live /\ calls # <<>>) =>
    /\ (tRet # "none" \/ kRet # "none") => exec
    /\ LET gateway == {i \in Idx : calls[i].by = "gateway"} IN
       /\ \A i \in gateway : \A j \in gateway : calls[i].op = calls[j].op => i = j
       /\ \A i \in gateway : ~calls[i].ok => (i = Len(calls) /\ puErr # "")
    /\ (tRet \notin {"none", "ok"} \/ kRet \notin {"none", "ok"}) => puErr # ""
    /\ puErr # "" => (pc = "done" /\ resp = 500)
    /\ pc = "done" => resp \in {200, 500}
    /\ resp = 200 =>
         /\ puErr = ""
         /\ tRet = "ok" /\ kRet = "ok"
         /\ \A i \in Idx : calls[i].by = "gateway" => calls[i].ok

\* A dispatch whose last step, the real layer upgrade, failed was answered 500.
C11_Witness ==
  /\ Live
  /\ tRet = "ok"
  /\ kRet = "upgrade failed"
  /\ resp = 500
\* The failed attempts of the HTTPS version query made by the controller.
FailedHttpsAttempts ==
  {i \in Idx : calls[i].by = "k8s" /\ calls[i].op = "HttpsVersion" /\ ~calls[i].ok}

\* C12: in a live run, when the current version could not be determined (the
\* version command failed or printed no version, the kubeconfig could not be
\* fetched or parsed, or every attempt of the HTTPS query failed), the
\* controller has returned the cannot-determine error and has made no manifest
\* fetch, no image-build request, no transcript and no upgrade command.
C12_UnknownCurrentVersionIsFatalWhenLive ==
  Live =>
    /\ (tCurErr # "" \/ \E i \in Idx : calls[i] = Call("talos", "TalosVersion", "", FALSE)) =>
         /\ tRet = "cannot determine current version"
         /\ ~Made("talos", {"FetchBareMetalConfig", "CreateSchematic", "CreateLog", "UpgradeNode"})
    /\ kCurErr # "" => ~Made("k8s", {"CreateLog", "UpgradeK8s"})
    /\ (\/ kCurErr # "" /\ pc # "kq_https"
        \/ \E i \in Idx : calls[i].by = "k8s" /\ calls[i].op = "Kubeconfig" /\ ~calls[i].ok
        \/ Cardinality(FailedHttpsAttempts) = maxRetries) =>
         /\ kRet = "cannot determine current version"
         /\ ~Made("k8s", {"CreateLog", "UpgradeK8s"})

\* A dispatch whose HTTPS version query failed at every attempt was aborted.
C12_Witness ==
  /\ Live
  /\ tRet = "ok"
  /\ Cardinality(FailedHttpsAttempts) = maxRetries
  /\ kRet = "cannot determine current version"
  /\ resp = 500
\* C13: a webhook dispatch never sets an override; and whenever
\* GetCurrentVersion is called with executeCommands = true, by a controller in
\* a live run or by any other caller, on an upgrader with any override set,
\* the version it returns is the one the real query answered: the version in
\* the output of the version command, the gitVersion of /version without its v.
C13_MockNeverAppliesWhenLive ==
  /\ Live => (tMock = "" /\ kMock = "")
  /\ (exec /\ tCur # "" /\ tCurErr = "") =>
       \E i \in Idx : /\ calls[i].op = "TalosVersion" /\ calls[i].ok
                      /\ tCur = TalosParseVersion(calls[i].arg)
  /\ (exec /\ kCur # "" /\ kCurErr = "") =>
       \E i \in Idx : /\ calls[i].op = "HttpsVersion" /\ calls[i].ok
                      /\ kCur = TrimPrefix(calls[i].arg, "v")

\* Both GetCurrentVersion methods were called with executeCommands = true on
\* upgraders whose override is 7.7.7 and returned the versions of the cluster.
C13_Witness ==
  /\ kind = "api"
  /\ exec
  /\ tMock = "7.7.7" /\ kMock = "7.7.7"
  /\ tCur = "1.9.0" /\ tCurErr = ""
  /\ kCur = "1.10.0" /\ kCurErr = ""
\* C14: while a diagnostics request is handled, whatever its parameters and the
\* answers of the cluster, no single-node upgrade command and no layer-upgrade
\* command (dry-run or real) is ever issued; its calls are reads of the version
\* source, the inventory and the manifest, version queries, and the image-build
\* request of the endpoint's own sub-check.
C14_DiagnosticsOnlyReads ==
  NonLive =>
    \A i \in Idx :
      /\ calls[i].op \notin {"UpgradeNode", "UpgradeK8s", "CreateLog"}
      /\ calls[i].op \in {"FetchVersions", "ParseConfig", "FetchBareMetalConfig",
                          "CreateSchematic", "Kubeconfig", "HttpsVersion", "TalosVersion"}
      /\ calls[i].op \in {"FetchBareMetalConfig", "CreateSchematic"} => calls[i].by = "diag"

\* A rehearsal with scenario both-upgrade found both layers in need of an
\* upgrade and ended with success.
C14_Witness ==
  /\ NonLive
  /\ pc = "done"
  /\ req.scenario = "both-upgrade"
  /\ tCur = "1.10.5" /\ tCur # tClean /\ tRet = "ok"
  /\ kCur = "1.33.2" /\ kCur # kClean /\ kRet = "ok"
  /\ results.upgrade_test = "success"
\* The Authorization header is "Bearer " followed by the configured token.
ValidBearer == req.auth = "Bearer " \o DiagnosticsToken

\* C15: a diagnostics request whose Authorization header is absent, is not of
\* the form Bearer <token> or carries another token is answered 401 (when it is
\* a GET, the only method the endpoint serves) and runs no sub-check: no
\* external call is made and no result is recorded.
C15_UnauthorizedDiagnosticsRejected ==
  (kind = "diag" /\ ~ValidBearer) =>
    /\ calls = <<>>
    /\ results = NoResults
    /\ tRet = "none" /\ kRet = "none"
    /\ resp # 200
    /\ (pc = "done" /\ req.method = "GET") => resp = 401

\* A GET with the token of somebody else was answered 401.
C15_Witness ==
  /\ kind = "diag"
  /\ pc = "done"
  /\ req.method = "GET"
  /\ req.auth = "Bearer no"
  /\ resp = 401
\* The sub-checks whose status diagnosticsEndpoint reports.
ReportedChecks ==
  {"github_api", "talos_config", "bare_metal_config", "image_factory", "cluster_versions",
   "upgrade_test"}

\* C16: summary.ready is true only when every reported sub-check has the status
\* success; in particular it is false when the rehearsal of the upgrade logic
\* returned an error.
C16_ReadyIsFaithful ==
  (kind = "diag" /\ results.ready = "true") =>
    /\ \A test \in ReportedChecks : results[test] \in {"", "success"}
    /\ puErr = ""
DecisionClass(d) ==
  CASE d = "noop" -> "already current"
    [] d = "downgrade" -> "downgrade rejected"
    [] d = "fail" -> "unknown current"
    [] OTHER -> "upgrade needed"

\* The class KubernetesUpgrader.UpgradeToVersion reaches for a target and an
\* outcome (currentVersion, err) of GetCurrentVersion.
K8sClass(executeCommands, version, err, currentVersion) ==
  IF ~K8sIsValidVersion(version) THEN "invalid target"
  ELSE DecisionClass(K8sDecision(executeCommands, err, currentVersion,
                                 TrimPrefix(version, "v")))

\* The class TalosUpgrader.UpgradeToVersion reaches.
TalosClass(executeCommands, version, err, currentVersion) ==
  IF ~TalosIsValidVersion(version) THEN "invalid target"
  ELSE DecisionClass(TalosDecision(executeCommands, err, currentVersion,
                                   TrimPrefix(version, "v")))

\* The controller has taken its decision in this run of processUpgrade.
TalosDecided == tRet # "none" \/ pc \in {"t_fetchBM", "t_schematic", "t_node"}

K8sDecided == kRet # "none" \/ pc \in {"k_dry", "k_real"}

\* The run's own decision shows in what the controller returned.
K8sClassShows(c) ==
  /\ c = "invalid target" <=> kRet = "invalid version"
  /\ c = "downgrade rejected" <=> kRet = "refusing to downgrade"
  /\ c = "unknown current" <=> kRet = "cannot determine current version"
  /\ c = "already current" => kRet = "ok" /\ ~Made("k8s", {"UpgradeK8s", "CreateLog"})

TalosClassShows(c) ==
  /\ c = "invalid target" <=> tRet = "invalid version"
  /\ c = "unknown current" <=> tRet = "cannot determine current version"
  /\ c = "already current" =>
        tRet = "ok" /\ ~Made("talos", {"FetchBareMetalConfig", "CreateSchematic",
                                      "UpgradeNode", "CreateLog"})

\* The outcomes GetCurrentVersion has for the orchestration-layer controller,
\* and the classes of UpgradeToVersion for each target and outcome, tabulated.
K8sErrors == {"", "failed to fetch kubeconfig", "failed to parse kubeconfig"} \cup HttpsFailures

K8sCurrents ==
  {""} \cup {K8sResolved(g, e, K8sOverride(p[2], p[1])) :
               g \in GitVersions, e \in BOOLEAN, p \in DiagnosticsParams}

K8sClasses ==
  [e \in BOOLEAN, v \in TargetVersions, err \in K8sErrors, cur \in K8sCurrents |->
     K8sClass(e, v, err, cur)]

TalosErrors == {"", "failed to get current Talos version", "could not parse Talos version"}

TalosCurrents ==
  {""} \cup {TalosCommandResult(out)[1] : out \in TalosVersionOutputs}
       \cup {TalosMockVersion(TalosOverride(p[3], p[1])) : p \in DiagnosticsParams}

TalosClasses ==
  [e \in BOOLEAN, v \in TalosTargets, err \in TalosErrors, cur \in TalosCurrents |->
     TalosClass(e, v, err, cur)]

NonLiveQueryFailed == NonLive /\ ret = "upgrade" /\ kCurErr # "" /\ kRet # "none"

\* The controller returned nil and issued no mutating command.
NonLiveQueryFailureTolerated ==
  NonLiveQueryFailed => /\ kRet = "ok"
                        /\ puErr = ""
                        /\ ~Made("k8s", {"UpgradeK8s", "CreateLog"})

\* C19: in non-live mode a failure of the current-version query is tolerated:
\* the controller goes on with a placeholder current version, returns no
\* error for the failure and issues no mutating command.
C19_NonLiveQueryFailureFallsBack ==
  /\ NonLiveQueryFailureTolerated
  /\ NonLiveQueryFailed => kCur # ""
\* The server listens and handles requests.
Serving == pc \notin {"main", "listen", "exited"}

\* Every variable main validates is set.
RequiredPresent ==
  \A k \in {"GITHUB_WEBHOOK_SECRET", "GITHUB_TOKEN", "GITHUB_OWNER", "GITHUB_REPO",
            "TALOS_CONFIG_PATH", "LOG_PATH", "DIAGNOSTICS_TOKEN"} : env[k] # ""

\* Every value the claim lists is set: webhook secret, diagnostics token,
\* repository owner and name, inventory path, log path, listening port.
ListedPresent ==
  \A k \in {"GITHUB_WEBHOOK_SECRET", "DIAGNOSTICS_TOKEN", "GITHUB_OWNER", "GITHUB_REPO",
            "TALOS_CONFIG_PATH", "LOG_PATH", "PORT"} : env[k] # ""

\* C20 (as amended): when the webhook secret, the access token, the repository
\* owner or name, the inventory path, the log path or the diagnostics token
\* is absent, main exits with status 1 naming the first absent variable and
\* never listens; the server serves only when all of them are present; the
\* port is not required: when it is absent the server listens on 3847.
C20_StartupRequiresConfig ==
  /\ (~RequiredPresent /\ pc # "main") =>
        /\ pc = "exited"
        /\ exitCode = 1
        /\ listenPort = ""
        /\ fatal = RequiredVariable(cfg) \o " environment variable is required"
        /\ env[RequiredVariable(cfg)] = ""
  /\ pc = "exited" => exitCode = 1 /\ listenPort = ""
  /\ Serving =>
        /\ RequiredPresent
        /\ exitCode = 0
        /\ listenPort = (IF env["PORT"] = "" THEN "3847" ELSE env["PORT"])

\* main has exited because the diagnostics token, and nothing else, is absent.
C20_Witness ==
  /\ pc = "exited"
  /\ env["DIAGNOSTICS_TOKEN"] = ""
  /\ \A k \in DOMAIN env \ {"DIAGNOSTICS_TOKEN"} : env[k] # ""
  /\ exitCode = 1

\* C20 as stated: when any of the listed values, the port among them, is
\* absent the process exits non-zero before it listens, and it serves only
\* when all of them are present.
C20_StartupRequiresListedConfig ==
  /\ (~ListedPresent /\ pc # "main") => pc = "exited" /\ exitCode # 0 /\ listenPort = ""
  /\ Serving => ListedPresent
\* processUpgradeWithTestOverrides has built the controller and applied its
\* override.
TalosStarted == tRet # "none" \/ pc \in {"t_current", "t_fetchBM", "t_schematic", "t_node"}

K8sStarted == kRet # "none" \/ ret = "upgrade"

\* C21: in the diagnostics rehearsal a non-empty current_k8s / current_talos
\* parameter is the mock current version of its layer whatever the scenario;
\* when it is empty, scenario k8s-upgrade or both-upgrade sets the
\* orchestration mock to 1.33.2 and talos-upgrade or both-upgrade sets the OS
\* mock to 1.10.5; any other scenario sets no mock.
C21_ExplicitParameterOverridesScenario ==
  /\ (NonLive /\ TalosStarted) =>
        /\ req.currentTalos # "" => tMock = req.currentTalos
        /\ (req.currentTalos = "" /\ req.scenario \in {"talos-upgrade", "both-upgrade"})
              => tMock = "1.10.5"
        /\ (req.currentTalos = "" /\ req.scenario \notin {"talos-upgrade", "both-upgrade"})
              => tMock = ""
  /\ (NonLive /\ K8sStarted) =>
        /\ req.currentK8s # "" => kMock = req.currentK8s
        /\ (req.currentK8s = "" /\ req.scenario \in {"k8s-upgrade", "both-upgrade"})
              => kMock = "1.33.2"
        /\ (req.currentK8s = "" /\ req.scenario \notin {"k8s-upgrade", "both-upgrade"})
              => kMock = ""

\* A rehearsal with scenario both-upgrade and both explicit parameters whose
\* controllers were both started.
C21_Witness ==
  /\ NonLive
  /\ K8sStarted
  /\ req.scenario = "both-upgrade"
  /\ req.currentK8s = "1.10.1"
  /\ req.currentTalos = "1.9.0"
  /\ kMock = "1.10.1"
  /\ tMock = "1.9.0"
\* GetCurrentVersion has returned to the orchestration-layer controller of a
\* validation run.
NonLiveK8sReturned == NonLive /\ ret = "upgrade" /\ kRet \notin {"none", "invalid version"}

\* C22: with executeCommands false the orchestration-layer resolution returns
\* the mock override when one is set and a fixed placeholder otherwise, and in
\* both cases the result does not depend on the cluster: the resolution
\* returns a version, never an error, and has sent the cluster no query.
C22_NonLiveResolutionIgnoresCluster ==
  NonLiveK8sReturned =>
    /\ kCurErr = ""
    /\ kCur # ""
    /\ kMock # "" => kCur = kMock
    /\ ~Made("k8s", {"Kubeconfig", "HttpsVersion"})
\* C23: with executeCommands false the OS-layer resolution returns the mock
\* override when one is set and 1.10.6 otherwise, without error and without
\* any command or request of the OS controller; so a validation run with
\* target 1.12.0 and mock 1.10.5 returns success with no command issued.
C23_NonLiveTalosResolutionOffline ==
  (NonLive /\ tRet \notin {"none", "invalid version"}) =>
    /\ tCurErr = ""
    /\ tCur = (IF tMock # "" THEN tMock ELSE "1.10.6")
    /\ tRet = "ok"
    /\ \A i \in Idx : calls[i].by # "talos"

\* The validation run of the example: target 1.12.0, mock 1.10.5 from
\* scenario talos-upgrade, the OS controller has returned.
C23_Witness ==
  /\ NonLive
  /\ req.scenario = "talos-upgrade"
  /\ versions.talos = "1.12.0"
  /\ tCur = "1.10.5"
  /\ tRet = "ok"
  /\ pc = "kq_kubeconfig"
\* The attempts of getAPIServerVersion in the history (a history holds the
\* attempts of one query), and the last of them.
HttpsAttempts == {i \in Idx : calls[i].op = "HttpsVersion"}

LastHttpsAttempt == CHOOSE i \in HttpsAttempts : \A j \in HttpsAttempts : j <= i

\* getAPIServerVersion has returned.
HttpsQueryOver == HttpsAttempts # {} /\ pc # "kq_https"

\* C24: the HTTPS version query makes at most 3 attempts, one after the other;
\* an attempt that fails (network error, status other than 200, undecodable
\* body, missing version field) is followed by the delay and another attempt
\* when it is the first or the second and by the return of its own error when
\* it is the third; the first attempt that reads a version is the last, and
\* the query returns that version; no delay follows the last attempt.
C24_AtMostThreeAttempts ==
  LET made == HttpsAttempts
      n == Cardinality(made)
      last == CHOOSE i \in made : \A j \in made : j <= i
      over == made # {} /\ pc # "kq_https"
  IN /\ n <= 3
     /\ \A i \in made :
           /\ calls[i].ok => i = last /\ over
           /\ ~calls[i].ok => calls[i].arg \in HttpsFailures
           /\ \A j \in made : j < i => \A k \in j..i : k \in made
     /\ Len(delays) <= 2
     /\ \A d \in 1..Len(delays) : delays[d] = d
     /\ made = {} => delays = <<>> \/ pc = "kq_kubeconfig"
     /\ (made # {} /\ pc = "kq_https") =>
           /\ Len(delays) = n
           /\ attempt = n + 1
           /\ kCurErr = calls[last].arg
     /\ (over /\ calls[last].ok) =>
           /\ Len(delays) = n - 1
           /\ kCurErr = ""
           /\ kCur \in {TrimPrefix(calls[last].arg, "v"), kMock}
     /\ (over /\ ~calls[last].ok) =>
           /\ n = 3
           /\ Len(delays) = 2
           /\ kCur = ""
           /\ kCurErr = calls[last].arg

\* The query returned after three failed attempts with different errors; its
\* error is the third.
C24_Witness ==
  /\ HttpsQueryOver
  /\ Cardinality(HttpsAttempts) = 3
  /\ calls[LastHttpsAttempt - 2].arg = "network error"
  /\ calls[LastHttpsAttempt - 1].arg = "undecodable body"
  /\ calls[LastHttpsAttempt].arg = "gitVersion missing"
  /\ kCurErr = "gitVersion missing"
  /\ delays = <<1, 2>>
\* fetchKubeconfig is between os.CreateTemp and its return.
FetchRunning == pc = "kq_talosctl"

\* C25: the temporary credential file does not outlive the fetch: whenever no
\* fetchKubeconfig is running, whichever way the last one returned (command
\* failure, read failure, success), no file it created exists; while one is
\* running only its own file exists.
C25_TempFileRemoved ==
  /\ ~FetchRunning => tmpFiles = {} /\ tmpPath = ""
  /\ FetchRunning => tmpFiles = {tmpPath} /\ tmpPath \in TempNames

\* A second version query of one request (the rehearsal's, after the probe's)
\* has returned from a fetch whose command succeeded and whose file could not
\* be read.
C25_Witness ==
  /\ NonLive
  /\ ret = "upgrade"
  /\ kCurErr = "failed to fetch kubeconfig"
  /\ \E i \in Idx : calls[i].by = "k8s" /\ calls[i].op = "Kubeconfig" /\ calls[i].ok
  /\ tmpFiles = {}
\* The live OS-layer run returned because upgradeNode failed; nodeIdx is the
\* index k of the node of that iteration, whose name the error is built from.
NodeUpgradeFailed == Live /\ tRet = "failed to upgrade node"

\* C26: when the upgrade of node k fails in a live OS-layer run, the failed
\* step is the last call of the run: every node before k has its one
\* successful upgrade command and nothing else, no node after k has any call,
\* the failed call is the one of node k, whose name the error carries, the
\* orchestration-layer controller is never started, and the dispatch fails.
C26_FailedNodeEndsRun ==
  NodeUpgradeFailed =>
    /\ nodeIdx \in 1..Len(allNodes)
    /\ calls # <<>>
    /\ LET last == calls[Len(calls)] IN
         /\ last.by = "talos"
         /\ last.op \in {"CreateLog", "UpgradeNode"}
         /\ ~last.ok
         /\ last.arg = allNodes[nodeIdx]
    /\ \A j \in 1..(nodeIdx - 1) :
         /\ Cardinality({i \in Idx : calls[i].op = "UpgradeNode" /\ calls[i].arg = allNodes[j]}) = 1
         /\ \A i \in Idx : calls[i].arg = allNodes[j] =>
               calls[i].ok /\ calls[i].op \in {"CreateLog", "UpgradeNode"}
    /\ \A j \in (nodeIdx + 1)..Len(allNodes) :
         \A i \in Idx : calls[i].arg # allNodes[j]
    /\ \A i \in Idx : calls[i].by # "k8s"
    /\ kRet = "none"
    /\ puErr = "talos upgrade failed"
    /\ pc = "done"
    /\ resp = 500

\* The command failed for the second of two nodes after the first was
\* upgraded.
C26_Witness ==
  /\ NodeUpgradeFailed
  /\ Len(allNodes) = 2
  /\ nodeIdx = 2
  /\ Len(NodeCalls) = 2
  /\ NodeCalls[1].ok
  /\ ~NodeCalls[2].ok
\* The calls the OS controller made with one of the operations ops.
TalosCalls(ops) == {i \in Idx : calls[i].by = "talos" /\ calls[i].op \in ops}

\* C27: in a live OS-layer run the manifest fetch and the image-build request
\* are made at most once each, the request directly after the successful
\* fetch; every node step comes after both succeeded; when either fails it is
\* the last call of the run, the controller returns its error and no node
\* step exists; and the OS controller makes neither call when the resolved
\* current version is the target.
C27_ManifestThenImageBuildOnce ==
  Live =>
    /\ Cardinality(TalosCalls({"FetchBareMetalConfig"})) <= 1
    /\ Cardinality(TalosCalls({"CreateSchematic"})) <= 1
    /\ \A i \in TalosCalls({"CreateSchematic"}) :
         /\ i > 1
         /\ calls[i - 1] = Call("talos", "FetchBareMetalConfig", "", TRUE)
    /\ \A i \in TalosCalls({"CreateLog", "UpgradeNode"}) :
         \E j \in TalosCalls({"CreateSchematic"}) :
           /\ j < i
           /\ calls[j].ok
           /\ \A k \in TalosCalls({"CreateLog", "UpgradeNode"}) : j < k
    /\ \A i \in TalosCalls({"FetchBareMetalConfig", "CreateSchematic"}) :
         ~calls[i].ok =>
           /\ i = Len(calls)
           /\ tRet = (IF calls[i].op = "CreateSchematic" THEN "failed to create schematic"
                      ELSE "failed to fetch bare-metal config")
           /\ TalosCalls({"CreateLog", "UpgradeNode"}) = {}
           /\ resp = 500
    /\ pc = "t_node" =>
         /\ Cardinality(TalosCalls({"FetchBareMetalConfig"})) = 1
         /\ Cardinality(TalosCalls({"CreateSchematic"})) = 1
    /\ (TalosDecided /\ tCurErr = "" /\ tCur = tClean) =>
         TalosCalls({"FetchBareMetalConfig", "CreateSchematic", "CreateLog",
                     "UpgradeNode"}) = {}

\* A live run that needed an upgrade, made both requests and upgraded its two
\* nodes.
C27_Witness ==
  /\ Live
  /\ tRet = "ok"
  /\ tCur # tClean
  /\ Len(allNodes) = 2
  /\ Cardinality(TalosCalls({"FetchBareMetalConfig"})) = 1
  /\ Cardinality(TalosCalls({"CreateSchematic"})) = 1
  /\ Cardinality(TalosCalls({"UpgradeNode"})) = 2
\* X.Y.Z of a valid target vX.Y.Z or X.Y.Z.
Bare(version) ==
  IF SubSeq(version, 1, 1) = "v" THEN SubSeq(version, 2, Len(version)) ELSE version

\* The installer image UpgradeToVersion builds for a target.
ImageFor(id, version) == InstallerImage(id, TrimPrefix(version, "v"))

\* C28: the installer image depends only on the schematic identifier and the
\* clean target version: every node step of a run is given the reference
\* <repository>/<schematic>:vX.Y.Z, X.Y.Z being the target without its "v",
\* and for every valid target the targets vX.Y.Z and X.Y.Z give the same
\* reference, whose tag has one leading "v".
C28_InstallerImageFromCleanVersion ==
  /\ Len(nodeImages) = Cardinality(TalosCalls({"CreateLog"}))
  /\ \A i \in 1..Len(nodeImages) :
       /\ nodeImages[i] = "factory.talos.dev/metal-installer-secureboot/" \o schematicID
                            \o ":v" \o Bare(versions.talos)
       /\ nodeImages[i] = nodeImages[1]
       /\ SubSeq(Bare(versions.talos), 1, 1) # "v"
       /\ schematicID \in SchematicIDs
  /\ pc = "t_node" =>
       \A t \in {x \in TalosTargets : TalosIsValidVersion(x)} :
         /\ ImageFor(schematicID, "v" \o Bare(t)) = ImageFor(schematicID, Bare(t))
         /\ ImageFor(schematicID, t) = "factory.talos.dev/metal-installer-secureboot/"
                                          \o schematicID \o ":v" \o Bare(t)

\* Both nodes of a live run with target v1.10.0 were given the same reference.
C28_Witness ==
  /\ Live
  /\ versions.talos = "v1.10.0"
  /\ Len(nodeImages) = 2
  /\ nodeImages[1] = "factory.talos.dev/metal-installer-secureboot/ce4c98:v1.10.0"
  /\ nodeImages[2] = nodeImages[1]
\* C29: nothing serialises dispatches: a handler whose trigger is valid and
\* relevant enters processUpgrade whatever the other handlers do, it is never
\* answered with anything but the outcome of its own dispatch (200 or 500),
\* and every handler past the filter carries a valid and relevant trigger.
C29_NoDispatchIsTurnedAway ==
  \A h \in Handlers :
    /\ (handlers[h].sigOk /\ handlers[h].relevant /\ handlers[h].pc = "done") =>
          handlers[h].resp \in {200, 500}
    /\ Dispatching(h) => handlers[h].sigOk /\ handlers[h].relevant
    /\ handlers[h].resp \in {0, 200, 401, 500}

\* Both handlers have the upgrade command of the same node in flight.
C29_Witness ==
  /\ InFlight(1)
  /\ InFlight(2)
  /\ handlers[1].pc = "node_running"
  /\ handlers[2].pc = "node_running"
  /\ ConcNodes[handlers[1].idx] = ConcNodes[handlers[2].idx]
\* The states of the trigger gateway.
GatewayState ==
  CASE pc = "idle" -> "Idle"
    [] pc \in {"wh_read", "wh_verify"} -> "Received"
    [] pc = "wh_filter" -> "SignatureValidated"
    [] pc = "done" -> IF resp = 200 THEN "Success" ELSE "Failed"
    [] OTHER -> "Dispatching"

\* The steps of the gateway: a request is received, its signature validated,
\* its relevance established, the dispatch started and ended; a request may
\* be answered from any state before Dispatching.
GatewaySteps ==
  {<<"Idle", "Received">>, <<"Received", "Received">>, <<"Received", "SignatureValidated">>,
   <<"Received", "Failed">>, <<"SignatureValidated", "Dispatching">>,
   <<"SignatureValidated", "Success">>, <<"SignatureValidated", "Failed">>,
   <<"Dispatching", "Dispatching">>, <<"Dispatching", "Success">>,
   <<"Dispatching", "Failed">>, <<"Success", "Idle">>, <<"Failed", "Idle">>}

GatewayStep == (<<GatewayState, GatewayState'>> \in GatewaySteps)

GatewayStepsOnly == [][GatewayStep]_vars

GatewayDispatchGuarded ==
  [](GatewayState = "Dispatching" =>
       /\ BodyRead
       /\ ValidSignature
       /\ req.payload.json
       /\ req.payload.ref = MainRef
       /\ ModifiesTrackFile(req.payload))

GatewayAnswers ==
  /\ (pc = "wh_read") ~> (pc = "done")
  /\ (GatewayState = "Dispatching") ~> (pc = "done" /\ resp \in {200, 500})

\* C30: the trigger gateway goes from Idle over the validated signature and
\* the relevance filter to Dispatching and then to Success or Failed, in that
\* order; Dispatching is entered only by a request whose body was read, whose
\* signature is valid and which passed the filter; every request is answered,
\* and every dispatched one with 200 or 500.
C30_GatewayTerminates ==
  /\ GatewayStepsOnly
  /\ GatewayDispatchGuarded
  /\ GatewayAnswers

\* A dispatch over two nodes is answered with 200 after both layers were
\* upgraded.
C30_Witness ==
  /\ Live
  /\ pc = "done"
  /\ resp = 200
  /\ Len(allNodes) = 2
  /\ Cardinality(TalosCalls({"UpgradeNode"})) = 2
  /\ \E i \in Idx : IsRealUpgrade(calls[i]) /\ calls[i].ok
\* C32: in a live run whose valid orchestration-layer target is numerically
\* higher than the current version GetCurrentVersion returned (major, minor and
\* patch compared as integers), isDowngrade is false, the controller does not
\* return the downgrade error, and it goes on to the dry-run command.
C32_HigherTargetNeverRejected ==
  (Live /\ K8sResolved4Upgrade /\ K8sIsValidVersion(versions.k8s)
        /\ SemverLess(kCur, kClean)) =>
    /\ ~isDowngrade(kCur, kClean)
    /\ kRet # "refusing to downgrade"
    /\ pc = "k_dry" \/ Made("k8s", {"CreateLog", "UpgradeK8s"})
\* C33: in a live run whose valid OS-layer target is numerically lower than the
\* current OS version the controller resolved, no single-node upgrade command
\* is issued.
C33_OsLayerNeverDowngrades ==
  (Live /\ TalosResolved /\ TalosIsValidVersion(versions.talos)
        /\ SemverLess(tClean, tCur)) =>
    ~Made("talos", {"UpgradeNode"})
\* C37: in a non-live run whose orchestration-layer target is valid and whose
\* GetCurrentVersion returned a version (the mock override included), the
\* decision is the one reached for that version without its leading v; in
\* particular a current version vX.Y.Z with target X.Y.Z is already current
\* and the controller returns success.
C37_ComparisonIgnoresLeadingV ==
  (NonLive /\ K8sDecided /\ kCurErr = "" /\ K8sIsValidVersion(versions.k8s)) =>
    /\ K8sDecision(exec, "", kCur, kClean)
         = K8sDecision(exec, "", TrimPrefix(kCur, "v"), kClean)
    /\ TrimPrefix(kCur, "v") = kClean => kRet = "ok"
\* processUpgrade asked for the desired versions and was refused, or read the
\* inventory without obtaining both a node list and a control endpoint.
VersionFetchFailed == \E i \in Idx : calls[i] = Call("gateway", "FetchVersions", "", FALSE)

InventoryRead == \E i \in Idx : calls[i].by = "gateway" /\ calls[i].op = "ParseConfig"

InventoryFailed == InventoryRead /\ (allNodes = <<>> \/ controlPlaneNode = "")

\* A controller exists: it was started, has returned or has made a call.
ControllerBuilt ==
  \/ TalosStarted
  \/ kRet # "none"
  \/ \E i \in Idx : calls[i].by \in {"talos", "k8s"}

\* C38: a dispatch whose version fetch fails, or whose inventory cannot be
\* parsed or yields no node list or no control endpoint, returns the error of
\* that step before it builds a controller: no controller call (version query,
\* manifest fetch, image build, transcript, upgrade command) is in its history,
\* and a webhook dispatch is answered 500.  Conversely a controller is built
\* only after a successful fetch and a successful read that gave a non-empty
\* node list and a control endpoint.
C38_ClusterUntouchedUntilPrepared ==
  /\ (VersionFetchFailed \/ InventoryFailed) =>
       /\ ~ControllerBuilt
       /\ puErr \in {"failed to fetch versions", "failed to parse talos config",
                     "failed to get cluster nodes", "failed to get control plane node"}
       /\ VersionFetchFailed => ~InventoryRead /\ puErr = "failed to fetch versions"
       /\ pc = "done"
       /\ Live => resp = 500
  /\ ControllerBuilt =>
       /\ \E i \in Idx : calls[i] = Call("gateway", "FetchVersions", "", TRUE)
       /\ \E i \in Idx : calls[i] = Call("gateway", "ParseConfig", "", TRUE)
       /\ allNodes # <<>>
       /\ controlPlaneNode # ""

\* A webhook dispatch fetched the versions, read an inventory that has a node
\* list and no endpoint, and was answered 500 without building a controller.
C38_Witness ==
  /\ Live
  /\ \E i \in Idx : calls[i] = Call("gateway", "ParseConfig", "", TRUE)
  /\ puErr = "failed to get control plane node"
  /\ ~ControllerBuilt
  /\ resp = 500
\* The image-build service answered 200/201 in this run.
SchematicAnswered == \E i \in Idx : calls[i] = Call("talos", "CreateSchematic", "", TRUE)

\* C36: a live OS-layer run never issues a node-upgrade command whose installer
\* reference has an empty schematic identifier: when the image-build service
\* answers 200/201 without an id, the controller returns an error and no
\* single-node upgrade command and no transcript is in the history.
C36_NoEmptySchematicInstalled ==
  (Live /\ SchematicAnswered /\ schematicID = "") =>
    /\ tRet \notin {"none", "ok"}
    /\ ~Made("talos", {"CreateLog", "UpgradeNode"})
    /\ nodeImages = <<>>
\* The nodes the running dispatch targets.
RunNodes == {run.nodes[i] : i \in 1..Len(run.nodes)}

\* The dispatch in progress is a re-delivery: the latest dispatch completed
\* successfully for the same desired versions and the same node list.
Redelivered ==
  /\ run.versions # NoVersions
  /\ prior.resp = 200
  /\ prior.versions = run.versions
  /\ prior.nodes = run.nodes

\* The cluster runs the desired versions of the dispatch in progress: every
\* node it targets and the orchestration layer.
ClusterAtTarget ==
  /\ run.nodes # <<>>
  /\ \A n \in RunNodes : site.os[n] = TrimPrefix(run.versions.talos, "v")
  /\ site.k8s = TrimPrefix(run.versions.k8s, "v")

\* C31: a re-delivered trigger (the latest dispatch completed successfully for
\* the same desired versions and nodes, the cluster runs those versions, and no
\* external call of the re-delivery fails) makes no manifest fetch, no image-build
\* request, no node-upgrade command and no layer-upgrade command, and is
\* answered 200.
C31_RedeliveryIsNoop ==
  (Redelivered /\ ClusterAtTarget /\ run.envOk) =>
    /\ run.cmds = {}
    /\ run.pc = "done" => run.resp = 200

\* C34: when the OS controller of a live run decides "already current", the
\* nodes it was given run the target: it has compared the target with the
\* version of the cluster, so no node older than the target is skipped.
C34_DecisionFromClusterVersion ==
  run.tDecision = "noop" =>
    \A n \in RunNodes : site.os[n] = TrimPrefix(run.versions.talos, "v")

\* C35: the node list and the control endpoint of a dispatch come from one
\* context of the inventory file, and two dispatches over the unchanged file
\* target the same endpoint and the same ordered node list.
C35_InventoryReadCoherent ==
  /\ run.nodes # <<>> =>
       \E c \in site.inventory :
         /\ c.nodes = run.nodes
         /\ c.endpoints # <<>>
         /\ c.endpoints[1] = run.endpoint
  /\ (run.nodes # <<>> /\ prior.nodes # <<>>) =>
       /\ run.nodes = prior.nodes
       /\ run.endpoint = prior.endpoint
====
